---------------------------- MODULE Spec2Model ----------------------------
(***************************************************************************)
(* A model of the video synchronisation engine (src/src/utils/             *)
(* get_videosdata.ts) and of the transcript write-back of handleVideoText  *)
(* (src/src/index.tsx).                                                    *)
(*                                                                         *)
(* Strings are sequences of character codes (32 = " ", 45 = "-",           *)
(* 47 = "/", 48..57 = "0".."9", 65..90 = "A".."Z", 97..122 = "a".."z").    *)
(* A millisecond timestamp is the pair [d, ms]: d whole days since         *)
(* 1970-01-01 UTC and ms milliseconds within that day, so that             *)
(* the value d * 86400000 + ms never has to be written as one integer.     *)
(***************************************************************************)
EXTENDS Integers, Sequences, FiniteSets, TLC

(***************************************************************************)
(* String primitives of the JavaScript runtime used by the engine.         *)
(***************************************************************************)

\* White space removed by String.prototype.trim (the ASCII part).
IsWhiteSpace(c) == c \in {9, 10, 11, 12, 13, 32}

RECURSIVE TrimStart(_)
TrimStart(s) ==
  IF s = <<>> THEN s
  ELSE IF IsWhiteSpace(Head(s)) THEN TrimStart(Tail(s)) ELSE s

RECURSIVE TrimEnd(_)
TrimEnd(s) ==
  IF s = <<>> THEN s
  ELSE IF IsWhiteSpace(s[Len(s)]) THEN TrimEnd(SubSeq(s, 1, Len(s) - 1)) ELSE s

\* String.prototype.trim
Trim(s) == TrimEnd(TrimStart(s))

\* String.prototype.toLowerCase (ASCII letters)
ToLowerCase(s) == [i \in 1..Len(s) |-> IF s[i] \in 65..90 THEN s[i] + 32 ELSE s[i]]

IsDigit(c) == c \in 48..57

\* /^\d+$/
AllDigits(s) == Len(s) > 0 /\ \A i \in 1..Len(s) : IsDigit(s[i])

\* parseInt(s, 10) of a short all-digit string
RECURSIVE ParseInt(_)
ParseInt(s) ==
  IF s = <<>> THEN 0
  ELSE 10 * ParseInt(SubSeq(s, 1, Len(s) - 1)) + (s[Len(s)] - 48)

(***************************************************************************)
(* Dates of the JavaScript runtime: Date.UTC, new Date(ms), getUTC*,       *)
(* getFullYear in the local time zone (a fixed offset, minutes east of UTC)*)
(***************************************************************************)

Null == [kind |-> "null"]
Ms(d, ms) == [kind |-> "ms", d |-> d, ms |-> ms]

\* Day number of the civil date y-m-d (m in 1..12), proleptic Gregorian.
DaysFromCivil(y, m, d) ==
  LET yy  == IF m <= 2 THEN y - 1 ELSE y
      era == yy \div 400
      yoe == yy - era * 400
      mp  == IF m > 2 THEN m - 3 ELSE m + 9
      doy == (153 * mp + 2) \div 5 + d - 1
      doe == yoe * 365 + yoe \div 4 - yoe \div 100 + doy
  IN  era * 146097 + doe - 719468

\* The civil date of a day number.
CivilFromDays(z) ==
  LET zz  == z + 719468
      era == zz \div 146097
      doe == zz - era * 146097
      yoe == (doe - doe \div 1460 + doe \div 36524 - doe \div 146096) \div 365
      doy == doe - (365 * yoe + yoe \div 4 - yoe \div 100)
      mp  == (5 * doy + 2) \div 153
      d   == doy - (153 * mp + 2) \div 5 + 1
      m   == IF mp < 10 THEN mp + 3 ELSE mp - 9
      y   == yoe + era * 400 + (IF m <= 2 THEN 1 ELSE 0)
  IN  [year |-> y, month |-> m, day |-> d]

\* Date.UTC(year, month, day): month is 0-based and may lie outside 0..11, day
\* may lie outside the month; a year in 0..99 means 1900 + year.
DateUTC(year, month, day) ==
  LET fullYear == IF year \in 0..99 THEN 1900 + year ELSE year
      ym == fullYear + month \div 12
      mn == month % 12
  IN  Ms(DaysFromCivil(ym, mn + 1, 1) + day - 1, 0)

getUTCFullYear(t) == CivilFromDays(t.d).year
getUTCMonth(t) == CivilFromDays(t.d).month - 1
getUTCDate(t) == CivilFromDays(t.d).day

\* The timestamp shifted by minutes (|minutes| at most one day).
AddMinutes(t, minutes) ==
  LET total == t.ms + minutes * 60000
  IN  Ms(t.d + total \div 86400000, total % 86400000)

\* new Date(ts).getFullYear(): the year in the local time zone.
getFullYear(t, tz) == CivilFromDays(AddMinutes(t, tz).d).year

\* The number written by a sequence of decimal digits (0..9), as a timestamp:
\* long division by the 86400000 ms of a day.
RECURSIVE DivModDay(_)
DivModDay(digits) ==
  IF digits = <<>> THEN [q |-> 0, r |-> 0]
  ELSE LET prev == DivModDay(SubSeq(digits, 1, Len(digits) - 1))
           cur  == prev.r * 10 + digits[Len(digits)]
       IN  [q |-> prev.q * 10 + cur \div 86400000, r |-> cur % 86400000]

MsOfDigits(digits) == LET qr == DivModDay(digits) IN Ms(qr.q, qr.r)

DigitsOf(s) == [i \in 1..Len(s) |-> s[i] - 48]

\* n * 1000 on a digit sequence
Times1000(digits) == digits \o <<0, 0, 0>>


\* The days of month m (1..12) of year y.
DaysInMonth(y, m) ==
  IF m = 12 THEN 31 ELSE DaysFromCivil(y, m + 1, 1) - DaysFromCivil(y, m, 1)

(***************************************************************************)
(* Publish-date normalisation of getVideosData (conv_create_time).         *)
(* A raw value is [kind |-> "string", chars |-> s], [kind |-> "number",    *)
(* digits |-> a non-negative integer in decimal, no leading zero] or Null. *)
(***************************************************************************)

Str(s) == [kind |-> "string", chars |-> s]
Num(digits) == [kind |-> "number", digits |-> digits]

\* /^\d{8}$/
IsYYYYMMDD(s) == Len(s) = 8 /\ AllDigits(s)

\* A YYYYMMDD branch that keeps the rebuilt date without comparing it.
YYYYMMDDUnchecked(s) ==
  DateUTC(ParseInt(SubSeq(s, 1, 4)), ParseInt(SubSeq(s, 5, 6)) - 1, ParseInt(SubSeq(s, 7, 8)))

\* The YYYYMMDD branch: the date is rebuilt with Date.UTC and kept only when
\* it shows the parsed year, month and day again.
YYYYMMDDTimestamp(s) ==
  LET year  == ParseInt(SubSeq(s, 1, 4))
      month == ParseInt(SubSeq(s, 5, 6)) - 1
      day   == ParseInt(SubSeq(s, 7, 8))
      date  == DateUTC(year, month, day)
  IN  IF getUTCFullYear(date) = year /\ getUTCMonth(date) = month
         /\ getUTCDate(date) = day
      THEN date ELSE Null

\* rawValue.match(/^\d{4}[-/]\d{1,2}[-/]\d{1,2}/): a prefix match.
IsSeparator(c) == c \in {45, 47}
MatchesDatePattern(s) ==
  /\ Len(s) >= 8
  /\ \A i \in 1..4 : IsDigit(s[i])
  /\ IsSeparator(s[5])
  /\ IsDigit(s[6])
  /\ \/ IsSeparator(s[7]) /\ IsDigit(s[8])
     \/ Len(s) >= 9 /\ IsDigit(s[7]) /\ IsSeparator(s[8]) /\ IsDigit(s[9])

\* The parts of a string that matches the date pattern: year, month, day as
\* written and what follows the day.
DateParts(s) ==
  LET mEnd   == IF IsSeparator(s[7]) THEN 6 ELSE 7
      dStart == mEnd + 2
      dEnd   == IF Len(s) > dStart /\ IsDigit(s[dStart + 1]) THEN dStart + 1 ELSE dStart
  IN  [year  |-> ParseInt(SubSeq(s, 1, 4)),
       month |-> ParseInt(SubSeq(s, 6, mEnd)),
       day   |-> ParseInt(SubSeq(s, dStart, dEnd)),
       iso   |-> s[5] = 45 /\ mEnd = 7 /\ s[8] = 45 /\ dEnd = 10,
       rest  |-> SubSeq(s, dEnd + 1, Len(s))]

\* new Date(rawValue).getTime() for a string that matches the date pattern:
\* the set of results a JavaScript engine may give (Null is NaN). The ISO form
\* YYYY-MM-DD is midnight UTC; any other form is left to the engine, which
\* reads it as local midnight or rejects it; a day past the end of its month
\* is rejected or rolls over into the next month; text after the day that is
\* no time of day is rejected.
DateParse(s, tz) ==
  LET p == DateParts(s)
      inRange == p.month \in 1..12 /\ p.day \in 1..31
      exact   == inRange /\ p.day <= DaysInMonth(p.year, p.month)
      utc     == Ms(DaysFromCivil(p.year, p.month, 1) + p.day - 1, 0)
      local   == AddMinutes(utc, -tz)
  IN  IF p.rest # <<>> \/ ~inRange THEN {Null}
      ELSE IF p.iso THEN (IF exact THEN {utc} ELSE {Null, utc})
      ELSE {Null, local}

\* A digit string read as seconds only when shorter than 10 characters.
TimestampOfStringBelow10(s) ==
  IF Len(s) < 10 THEN MsOfDigits(Times1000(DigitsOf(s))) ELSE MsOfDigits(DigitsOf(s))

\* A digit string: seconds when at most 10 characters long, else milliseconds.
TimestampOfString(s) ==
  IF Len(s) <= 10 THEN MsOfDigits(Times1000(DigitsOf(s))) ELSE MsOfDigits(DigitsOf(s))

\* A number: seconds when below 10000000000 (at most 10 digits), else
\* milliseconds.
TimestampOfNumber(digits) ==
  IF Len(digits) <= 10 THEN MsOfDigits(Times1000(digits)) ELSE MsOfDigits(digits)

\* year >= 2010 && year <= 2030
YearInRange(year) == year >= 2010 /\ year <= 2030

\* The timestamp branches keep the candidate only when its local year is in
\* range.
CheckedTimestamp(ts, tz) == IF YearInRange(getFullYear(ts, tz)) THEN ts ELSE Null

\* The possible values of `timestamp` after the normalisation of rawValue
\* (Null: the publish-date field is left unset).
NormalizePublishTime(rawValue, tz) ==
  IF rawValue.kind = "string" THEN
    LET s == rawValue.chars IN
    IF IsYYYYMMDD(s) THEN {YYYYMMDDTimestamp(s)}
    ELSE IF MatchesDatePattern(s) THEN DateParse(s, tz)
    ELSE IF AllDigits(s) THEN {CheckedTimestamp(TimestampOfString(s), tz)}
    ELSE {Null}
  ELSE IF rawValue.kind = "number" THEN
    {CheckedTimestamp(TimestampOfNumber(rawValue.digits), tz)}
  ELSE {Null}

(***************************************************************************)
(* The destination datastore (the bitable SDK) and the state of one call   *)
(* of getVideosData.                                                       *)
(*                                                                         *)
(* A column is named by its key in fieldMapping ("aweme_id" stands for the *)
(* column name the mapping gives that key, and so on); the primary column  *)
(* of a fresh table is named "primary" until it is renamed. A table is     *)
(* [exists, fields, rows]: fields a set of [id, name, isPrimary], rows a   *)
(* sequence of [recordId, fields] with fields a function from column ids   *)
(* to cell values.                                                         *)
(***************************************************************************)
VARIABLES
  tables,            \* the base: table name -> table
  nextRecordId,      \* the record id the datastore hands out next
  env,               \* the environment: [faults, bad, runs]
  params,            \* the arguments of getVideosData
  remote,            \* the data-collection API: url -> response.data
  tz,                \* the local time zone, minutes east of UTC
  pc,                \* where the call stands
  run,               \* the number of calls of getVideosData started
  urls,              \* the trimmed, non-blank lines of params.url
  urlIndex,          \* the position of singleUrl in urls
  videos,            \* response.data.videos of the current url
  tableName,
  isNewTable,
  fieldMap,          \* column name -> column id
  toCreate,          \* the columns ensureFieldsExist has still to create
  fieldFaults,       \* failed column creations so far
  allRecords,        \* record ids fetched by the paginated scan
  hasMore,
  pageToken,
  cellIndex,         \* the position in allRecords of the next cell read
  existingVideoIds,  \* canonical id -> record id
  recordsToAdd,
  recordsToUpdate,
  writeIndex,        \* the loop variable i of the batch loops
  visited,           \* history: the urls whose loop body was entered
  passes,            \* history: one entry per url whose processing ended
  writes,            \* history: the datastore write calls issued
  readFailed,        \* history: records whose cell read failed in this scan
  rawValue,          \* a publish time under normalisation
  timestamp,         \* its normalised value
  textPc,            \* handleVideoText: where its final table update stands
  processingVideos,  \* handleVideoText: the items after the four stages
  textRecordsToUpdate, \* handleVideoText: recordsToUpdate
  updateCount,       \* handleVideoText: rows written
  failCount,         \* handleVideoText: items without a transcript to write
  textIndex,         \* handleVideoText: position of the record-by-record loop
  pageFailed,        \* history: a page fetch of this scan failed
  subRef,            \* subRef.current, the cancellation flag of the subscription
  loops,             \* the calls of bloggersSubscribe
  tasks,             \* the calls of executeSubscriptionTask
  botWebURL,         \* the notification address is not empty
  inflight,          \* the remote calls of the text pipeline awaiting their response
  attempt,           \* the polling round of the running stage
  handled,           \* what the running stage (or its round) has already taken up
  asrTasks,          \* history: item -> transcription tasks created remotely
  textButtonDisabled, \* the start flag of the text pipeline's button
  multi              \* the calls of startMultiHandleVideoText

syncVars == <<pc, run, urls, urlIndex, videos, tableName, isNewTable, fieldMap,
              toCreate, fieldFaults, allRecords, hasMore, pageToken, cellIndex,
              existingVideoIds, recordsToAdd, recordsToUpdate, writeIndex,
              visited, passes, writes, readFailed, pageFailed>>
storeVars == <<tables, nextRecordId>>
inputVars == <<env, params, remote, tz>>
dateVars == <<rawValue, timestamp>>
stageVars == <<inflight, attempt, handled, asrTasks>>
multiVars == <<textButtonDisabled, multi>>
textVars == <<textPc, processingVideos, textRecordsToUpdate, updateCount, failCount, textIndex,
              stageVars, multiVars>>
subVars == <<subRef, loops, tasks, botWebURL>>

\* The keys of fieldMapping, in declaration (for-in) order.
fieldMapping ==
  <<"nickname", "aweme_id", "share_url", "conv_create_time", "desc",
    "digg_count", "collect_count", "comment_count", "duration", "play_addr",
    "audio_addr", "share_count", "video_text_arr">>

FieldKeys == {fieldMapping[i] : i \in 1..Len(fieldMapping)}

Range(f) == {f[x] : x \in DOMAIN f}

\* A function with one more (or one overridden) entry.
Put(f, k, v) == [x \in DOMAIN f \cup {k} |-> IF x = k THEN v ELSE f[x]]

EmptyMap == [x \in {} |-> 0]

\* An index key that is lower-cased but keeps its surrounding white space.
cleanVideoIdUntrimmed(videoIdString) == ToLowerCase(videoIdString)

\* const cleanVideoId = videoIdString.trim().toLowerCase(): the key under
\* which a scanned row is indexed.
cleanVideoId(videoIdString) == ToLowerCase(Trim(videoIdString))

\* A lookup key that is trimmed but keeps its letter case.
videoIdCaseKept(video) == Trim(video.aweme_id)

\* const videoId = String(video.aweme_id).trim().toLowerCase(): the key under
\* which an incoming record is looked up.
videoId(video) == ToLowerCase(Trim(video.aweme_id))

\* 'videos[0].nickname || default name'
DefaultTableName == "unnamed"
TableNameOf(vs) == IF vs[1].nickname = "" THEN DefaultTableName ELSE vs[1].nickname

NoTable == [exists |-> FALSE, fields |-> {}, rows |-> <<>>]

PrimaryField(name) == [id |-> "primary", name |-> name, isPrimary |-> TRUE]
PlainField(key) == [id |-> key, name |-> key, isPrimary |-> FALSE]

\* A table whose schema is complete: the primary column holds the video ids.
FullSchema == {PrimaryField("aweme_id")} \cup {PlainField(k) : k \in FieldKeys \ {"aweme_id"}}

\* table.getCellString(fieldId, recordId): the cell as text ("" when unset).
getCellString(table, fieldId, recordId) ==
  LET row == CHOOSE r \in Range(table.rows) : r.recordId = recordId
  IN  IF fieldId \in DOMAIN row.fields THEN row.fields[fieldId] ELSE <<>>

\* The rows after table.addRecords(batch): one new row per entry.
AddedRows(rows, batch, firstId) ==
  rows \o [i \in 1..Len(batch) |-> [recordId |-> firstId + i - 1, fields |-> batch[i].fields]]

\* A row after the entries of a setRecords batch were applied in order: each
\* entry overwrites the cells it carries, so a cell ends with the value of the
\* last entry that carries it.
ApplyUpdates(row, batch) ==
  LET Carriers(f) == {j \in 1..Len(batch) : f \in DOMAIN batch[j].fields}
      Last(f) == CHOOSE j \in Carriers(f) : \A k \in (j + 1)..Len(batch) : k \notin Carriers(f)
  IN  [row EXCEPT !.fields =
         [f \in DOMAIN row.fields \cup UNION {DOMAIN batch[j].fields : j \in 1..Len(batch)} |->
            IF Carriers(f) # {} THEN batch[Last(f)].fields[f] ELSE row.fields[f]]]

\* The rows after table.setRecords(batch).
UpdatedRows(rows, batch) ==
  LET named == {batch[j].recordId : j \in 1..Len(batch)}
  IN  [i \in 1..Len(rows) |->
         LET Mine(u) == u.recordId = rows[i].recordId
         IN  IF rows[i].recordId \in named
             THEN ApplyUpdates(rows[i], SelectSeq(batch, Mine))
             ELSE rows[i]]

(***************************************************************************)
(* getVideosData, one action per awaited call or synchronous stretch.      *)
(***************************************************************************)

\* const batchSize = 500
batchSize == 500

\* A remote or datastore call may fail at any time when the environment
\* allows transient faults.
Faulty == env.faults

\* A write fails when it carries an entry the datastore rejects, and may fail
\* on a transient fault.
Rejected(batch, bad) == {i \in 1..Len(batch) : batch[i].video \in bad}
WriteMayFail(batch, bad) == Faulty \/ Rejected(batch, bad) # {}
WriteMaySucceed(batch, bad) == Rejected(batch, bad) = {}

tableLocals == <<videos, tableName, isNewTable>>
fieldLocals == <<fieldMap, toCreate>>
scanLocals == <<allRecords, hasMore, pageToken, cellIndex, existingVideoIds, readFailed,
                pageFailed>>
writeLocals == <<recordsToAdd, recordsToUpdate, writeIndex>>

\* The url's processing is over (normally, or in the catch of the url loop):
\* its block-scoped state is dropped and the loop goes on with the next url.
NextPcAfterUrl == IF urlIndex = Len(urls) THEN "done" ELSE "fetch"

EndPass(result) ==
  /\ passes' = Append(passes, [run |-> run, url |-> urls[urlIndex], result |-> result,
                               added |-> recordsToAdd, updated |-> recordsToUpdate])
  /\ urlIndex' = urlIndex + 1
  /\ pc' = NextPcAfterUrl
  /\ videos' = <<>> /\ tableName' = "" /\ isNewTable' = FALSE
  /\ fieldMap' = EmptyMap /\ toCreate' = <<>>
  /\ allRecords' = <<>> /\ hasMore' = TRUE /\ pageToken' = 0 /\ cellIndex' = 0
  /\ existingVideoIds' = EmptyMap /\ readFailed' = {} /\ pageFailed' = FALSE
  /\ recordsToAdd' = <<>> /\ recordsToUpdate' = <<>> /\ writeIndex' = 0

\* A catch of the url loop that gives up the remaining urls.
CatchUrlErrorAbort ==
  /\ passes' = Append(passes, [run |-> run, url |-> urls[urlIndex], result |-> "error",
                               added |-> recordsToAdd, updated |-> recordsToUpdate])
  /\ urlIndex' = urlIndex + 1
  /\ pc' = "done"
  /\ videos' = <<>> /\ tableName' = "" /\ isNewTable' = FALSE
  /\ fieldMap' = EmptyMap /\ toCreate' = <<>>
  /\ allRecords' = <<>> /\ hasMore' = TRUE /\ pageToken' = 0 /\ cellIndex' = 0
  /\ existingVideoIds' = EmptyMap /\ readFailed' = {} /\ pageFailed' = FALSE
  /\ recordsToAdd' = <<>> /\ recordsToUpdate' = <<>> /\ writeIndex' = 0

\* The catch of the url loop.
CatchUrlError == EndPass("error")

\* url.split('\n').map(line => line.trim()).filter(line => line)
NonBlank(line) == line # <<>>
UrlsOf(url) == SelectSeq([i \in 1..Len(url) |-> Trim(url[i])], NonBlank)

\* A validation that looks at the url only.
ParamsInvalidUrlOnly == params.url = <<>> \/ UrlsOf(params.url) = <<>>

\* if (!username || !passtoken) return; if (!url) return;
\* if (urls.length === 0) return
ParamsInvalid ==
  ~params.username \/ ~params.passtoken \/ params.url = <<>> \/ UrlsOf(params.url) = <<>>

\* Parameter validation and the split of the url input.
Start ==
  /\ pc \in {"idle", "done"}
  /\ run < env.runs
  /\ run' = run + 1
  /\ visited' = <<>>
  /\ writes' = <<>>
  /\ IF ParamsInvalid
     THEN pc' = "done" /\ urls' = <<>> /\ urlIndex' = 0
     ELSE pc' = "fetch" /\ urls' = UrlsOf(params.url) /\ urlIndex' = 1
  /\ UNCHANGED <<tableLocals, fieldLocals, scanLocals, writeLocals, fieldFaults,
                 passes, storeVars, inputVars, dateVars, textVars, subVars>>

\* The head of the url loop: the endpoint choice, the request and the shape of
\* the response.
Fetch ==
  /\ pc = "fetch"
  /\ visited' = Append(visited, urls[urlIndex])
  /\ LET data == remote[urls[urlIndex]] IN
     \/ /\ params.platform \notin {"douyin", "tiktok"}
        /\ CatchUrlError
     \/ /\ params.platform \in {"douyin", "tiktok"}
        /\ Faulty
        /\ CatchUrlError
     \/ /\ params.platform \in {"douyin", "tiktok"}
        /\ data.kind = "message"
        /\ EndPass("rejected")
     \/ /\ params.platform \in {"douyin", "tiktok"}
        /\ data.kind = "videos" /\ data.videos = <<>>
        /\ EndPass("empty")
     \/ /\ params.platform \in {"douyin", "tiktok"}
        /\ data.kind = "videos" /\ data.videos # <<>>
        /\ videos' = data.videos
        /\ tableName' = TableNameOf(data.videos)
        /\ pc' = "getTable"
        /\ UNCHANGED <<urlIndex, isNewTable, fieldLocals, scanLocals, writeLocals, passes>>
  /\ UNCHANGED <<run, urls, fieldFaults, writes, storeVars, inputVars, dateVars, textVars, subVars>>

\* getOrCreateTable: getTableMetaList, the search by name and, for a table
\* that exists, getTableById.
FindTable ==
  /\ pc = "getTable"
  /\ \/ Faulty /\ CatchUrlError
     \/ /\ pc' = IF tables[tableName].exists THEN "ensure" ELSE "addTable"
        /\ UNCHANGED <<urlIndex, tableLocals, fieldLocals, scanLocals, writeLocals, passes>>
  /\ UNCHANGED <<run, urls, fieldFaults, visited, writes, storeVars, inputVars, dateVars, textVars, subVars>>

\* getOrCreateTable: addTable, then getTableById of the new table. The new
\* table has a primary column with a default name and no row.
AddTable ==
  /\ pc = "addTable"
  /\ \/ /\ Faulty /\ CatchUrlError
        /\ UNCHANGED tables
     \/ /\ Faulty /\ CatchUrlError
        /\ tables' = [tables EXCEPT ![tableName] =
                        [exists |-> TRUE, fields |-> {PrimaryField("primary")}, rows |-> <<>>]]
     \/ /\ tables' = [tables EXCEPT ![tableName] =
                        [exists |-> TRUE, fields |-> {PrimaryField("primary")}, rows |-> <<>>]]
        /\ isNewTable' = TRUE
        /\ pc' = "rename"
        /\ UNCHANGED <<urlIndex, videos, tableName, fieldLocals, scanLocals, writeLocals, passes>>
  /\ UNCHANGED <<run, urls, fieldFaults, visited, writes, nextRecordId, inputVars, dateVars, textVars, subVars>>

\* getOrCreateTable: the primary column of a new table is renamed to the
\* video-id column; a failure is logged and the column keeps its name.
RenamePrimary ==
  /\ pc = "rename"
  /\ \/ /\ Faulty
        /\ UNCHANGED tables
     \/ tables' = [tables EXCEPT ![tableName].fields =
                     {IF f.isPrimary THEN [f EXCEPT !.name = "aweme_id"] ELSE f : f \in @}]
  /\ pc' = "ensure"
  /\ UNCHANGED <<run, urls, urlIndex, tableLocals, fieldLocals, scanLocals, writeLocals,
                 fieldFaults, visited, passes, writes, nextRecordId, inputVars, dateVars, textVars, subVars>>

\* The column name -> id map of a column listing.
FieldMapOf(fields) ==
  [name \in {f.name : f \in fields} |-> (CHOOSE f \in fields : f.name = name).id]

\* Every column but the video-id column is created, present or not.
MissingFieldAlways(key) == key # "aweme_id"

\* The column of fieldMapping is not in the listing, and is not the video-id
\* column.
MissingField(key) ==
  key # "aweme_id" /\ key \notin {f.name : f \in tables[tableName].fields}

\* Where the call goes once the column map is complete: the scan of the
\* existing ids, or straight to the classification when the video-id column has
\* no id.
PcAfterEnsure(map) == IF "aweme_id" \in DOMAIN map THEN "scan" ELSE "classify"

MaxFieldFaults == 1

\* The subsets of S with at most n elements.
RECURSIVE SubsetsUpTo(_, _)
SubsetsUpTo(S, n) ==
  IF n = 0 \/ S = {} THEN {{}}
  ELSE LET x == CHOOSE y \in S : TRUE
       IN  SubsetsUpTo(S \ {x}, n) \cup {T \cup {x} : T \in SubsetsUpTo(S \ {x}, n - 1)}

\* ensureFieldsExist: the column listing, then one addField for every column of
\* fieldMapping the table lacks (the video-id column excepted). A creation may
\* fail (failed): the column is then left out of the map, also when the column
\* was created but its id could be read neither from the result nor from the
\* fresh listing (unmapped). Failing to list the columns or to read the table's
\* name is thrown to the url loop. toCreate keeps the columns whose creation
\* was attempted.
ensureFieldsExist ==
  /\ pc = "ensure"
  /\ \/ /\ Faulty /\ CatchUrlError
        /\ UNCHANGED <<tables, fieldFaults>>
     \/ LET missing == SelectSeq(fieldMapping, MissingField)
            missingSet == {k \in FieldKeys : MissingField(k)}
            budget == IF Faulty THEN MaxFieldFaults - fieldFaults ELSE 0
        IN  \E failed \in SubsetsUpTo(missingSet, budget) : \E unmapped \in SUBSET failed :
              /\ fieldFaults' = fieldFaults + Cardinality(failed)
              /\ tables' = [tables EXCEPT ![tableName].fields =
                              @ \cup {PlainField(k) : k \in (missingSet \ failed) \cup unmapped}]
              /\ fieldMap' =
                   [name \in {f.name : f \in tables[tableName].fields} \cup (missingSet \ failed) |->
                      IF name \in missingSet THEN PlainField(name).id
                      ELSE FieldMapOf(tables[tableName].fields)[name]]
              /\ toCreate' = missing
              /\ pc' = PcAfterEnsure(fieldMap')
              /\ UNCHANGED <<urlIndex, tableLocals, scanLocals, writeLocals, passes>>
  /\ UNCHANGED <<run, urls, visited, writes, nextRecordId, inputVars, dateVars, textVars, subVars>>

\* pageSize: 5000
pageSize == 5000

\* The datastore returns at most PageRows rows per page (and never more than
\* the page size asked for).
PageRows == 2
PageLimit == IF PageRows < pageSize THEN PageRows ELSE pageSize

\* The classification starts as soon as the pages are fetched.
PcAfterScanNoCells(records) == "classify"

\* After the pagination loop: the loop over the cells of the fetched rows,
\* then the classification.
PcAfterScan(records) == IF records = <<>> THEN "classify" ELSE "cells"

\* A failed page fetch that throws away the pages fetched so far.
OnGetRecordsErrorDropAll ==
  /\ hasMore' = FALSE
  /\ allRecords' = <<>>
  /\ pc' = "classify"
  /\ pageFailed' = TRUE
  /\ UNCHANGED pageToken

\* catch (getRecordsError): the failure is logged and the loop ends; the
\* pages fetched so far are kept.
OnGetRecordsError ==
  /\ hasMore' = FALSE
  /\ pc' = PcAfterScan(allRecords)
  /\ pageFailed' = TRUE
  /\ UNCHANGED <<allRecords, pageToken>>

\* One turn of the pagination loop: table.getRecords({pageSize, pageToken}).
\* A failure is logged and ends the loop with what was fetched so far.
GetRecords ==
  /\ pc = "scan"
  /\ hasMore
  /\ LET rows == tables[tableName].rows
         last == IF pageToken + PageLimit < Len(rows) THEN pageToken + PageLimit ELSE Len(rows)
         page == [i \in 1..(last - pageToken) |-> rows[pageToken + i].recordId]
     IN  \/ /\ Faulty
            /\ OnGetRecordsError
         \/ /\ allRecords' = allRecords \o page
            /\ hasMore' = (last < Len(rows))
            /\ pageToken' = last
            /\ pc' = IF last < Len(rows) THEN "scan" ELSE PcAfterScan(allRecords')
            /\ UNCHANGED pageFailed
  /\ cellIndex' = 1
  /\ UNCHANGED <<run, urls, urlIndex, tableLocals, fieldLocals, existingVideoIds, readFailed,
                 writeLocals, fieldFaults, visited, passes, writes, storeVars, inputVars,
                 dateVars, textVars, subVars>>

\* The index keeps the first row it meets under a canonical id.
ReadCellFirstWins ==
  /\ pc = "cells"
  /\ LET recordId == allRecords[cellIndex]
         videoIdString == getCellString(tables[tableName], fieldMap["aweme_id"], recordId)
     IN  \/ /\ Faulty
            /\ readFailed' = readFailed \cup {recordId}
            /\ UNCHANGED existingVideoIds
         \/ /\ existingVideoIds' =
                 IF videoIdString # <<>> /\ cleanVideoId(videoIdString) \notin DOMAIN existingVideoIds
                 THEN Put(existingVideoIds, cleanVideoId(videoIdString), recordId)
                 ELSE existingVideoIds
            /\ UNCHANGED readFailed
  /\ cellIndex' = cellIndex + 1
  /\ pc' = IF cellIndex = Len(allRecords) THEN "classify" ELSE "cells"
  /\ UNCHANGED <<run, urls, urlIndex, tableLocals, fieldLocals, allRecords, hasMore, pageToken,
                 pageFailed, writeLocals, fieldFaults, visited, passes, writes, storeVars, inputVars,
                 dateVars, textVars, subVars>>

\* One turn of the loop over allRecords: the video-id cell is read as text and,
\* when it is not empty, indexed under its canonical form. A failed read is
\* logged and the row is skipped.
ReadCell ==
  /\ pc = "cells"
  /\ LET recordId == allRecords[cellIndex]
         videoIdString == getCellString(tables[tableName], fieldMap["aweme_id"], recordId)
     IN  \/ /\ Faulty
            /\ readFailed' = readFailed \cup {recordId}
            /\ UNCHANGED existingVideoIds
         \/ /\ existingVideoIds' =
                 IF videoIdString # <<>>
                 THEN Put(existingVideoIds, cleanVideoId(videoIdString), recordId)
                 ELSE existingVideoIds
            /\ UNCHANGED readFailed
  /\ cellIndex' = cellIndex + 1
  /\ pc' = IF cellIndex = Len(allRecords) THEN "classify" ELSE "cells"
  /\ UNCHANGED <<run, urls, urlIndex, tableLocals, fieldLocals, allRecords, hasMore, pageToken,
                 pageFailed, writeLocals, fieldFaults, visited, passes, writes, storeVars, inputVars,
                 dateVars, textVars, subVars>>

\* The cells written for one video: a column takes part only when the map has
\* its id, the publish date only when it could be normalised (ts # Null).
\* Columns copied from the video without any decision are written as "v".
MappedKeys(ts) ==
  {k \in FieldKeys : k \in DOMAIN fieldMap /\ (k = "conv_create_time" => ts # Null)}

CellValue(video, key, ts) ==
  CASE key = "aweme_id" -> video.aweme_id
    [] key = "nickname" -> video.nickname
    [] key = "conv_create_time" -> ts
    [] key = "video_text_arr" ->
         IF video.video_text_arr # "" THEN video.video_text_arr ELSE video.video_text_ori
    [] OTHER -> "v"

FieldsOf(video, ts) ==
  LET keys == MappedKeys(ts)
  IN  [fid \in {fieldMap[k] : k \in keys} |->
         CellValue(video, CHOOSE k \in keys : fieldMap[k] = fid, ts)]

\* A video without the video-id column in the map is skipped (continue).
HasRequiredId == "aweme_id" \in DOMAIN fieldMap

\* existingVideoIds.get(videoId) is set: the record exists.
IsExisting(video) == videoId(video) \in DOMAIN existingVideoIds

\* The loop over the videos of the response: each video with the video-id
\* column mapped becomes an update of the indexed row or a new record. An entry
\* remembers the position of its video in the response (video).
Classify ==
  /\ pc = "classify"
  /\ \E ts \in {f \in [1..Len(videos) -> UNION {NormalizePublishTime(videos[i].conv_create_time, tz) :
                                                 i \in 1..Len(videos)}] :
                     \A i \in 1..Len(videos) : f[i] \in NormalizePublishTime(videos[i].conv_create_time, tz)} :
       LET index == [i \in 1..Len(videos) |-> i]
           IsAdd(i) == HasRequiredId /\ ~IsExisting(videos[i])
           IsUpdate(i) == HasRequiredId /\ IsExisting(videos[i])
       IN  \E adds \in {SelectSeq(index, IsAdd)}, updates \in {SelectSeq(index, IsUpdate)} :
              /\ recordsToAdd' =
                   [j \in 1..Len(adds) |->
                      [video |-> adds[j], fields |-> FieldsOf(videos[adds[j]], ts[adds[j]])]]
              /\ recordsToUpdate' =
                   [j \in 1..Len(updates) |->
                      [video |-> updates[j],
                       recordId |-> existingVideoIds[videoId(videos[updates[j]])],
                       fields |-> FieldsOf(videos[updates[j]], ts[updates[j]])]]
  /\ writeIndex' = 0
  /\ pc' = "add"
  /\ UNCHANGED <<run, urls, urlIndex, tableLocals, fieldLocals, scanLocals, fieldFaults,
                 visited, passes, writes, storeVars, inputVars, dateVars, textVars, subVars>>

\* recordsToAdd.slice(i, i + batchSize)
Chunk(list, i) ==
  SubSeq(list, i + 1, IF i + batchSize < Len(list) THEN i + batchSize ELSE Len(list))

WriteEvent(op, batch, ok) ==
  [op |-> op, run |-> run, url |-> urlIndex, from |-> writeIndex, rows |-> Len(batch), ok |-> ok]

\* An insert failure that is thrown on to the catch of the url loop.
OnAddErrorRethrow == EndPass("error")

\* catch (addError): the failure is logged and the call goes on with the
\* update step.
OnAddError ==
  /\ pc' = "update"
  /\ writeIndex' = 0
  /\ UNCHANGED <<urlIndex, tableLocals, fieldLocals, scanLocals, recordsToAdd,
                 recordsToUpdate, passes>>

\* One turn of the loop over recordsToAdd: table.addRecords(batch). The whole
\* loop stands in one try: the first failing batch ends it.
AddRecords ==
  /\ pc = "add"
  /\ recordsToAdd # <<>>
  /\ LET batch == Chunk(recordsToAdd, writeIndex) IN
     \/ /\ WriteMaySucceed(batch, env.bad.add)
        /\ tables' = [tables EXCEPT ![tableName].rows = AddedRows(@, batch, nextRecordId)]
        /\ nextRecordId' = nextRecordId + Len(batch)
        /\ writes' = Append(writes, WriteEvent("addRecords", batch, TRUE))
        /\ IF writeIndex + batchSize < Len(recordsToAdd)
           THEN writeIndex' = writeIndex + batchSize /\ pc' = "add"
           ELSE writeIndex' = 0 /\ pc' = "update"
        /\ UNCHANGED <<urlIndex, tableLocals, fieldLocals, scanLocals, recordsToAdd,
                       recordsToUpdate, passes>>
     \/ /\ WriteMayFail(batch, env.bad.add)
        /\ writes' = Append(writes, WriteEvent("addRecords", batch, FALSE))
        /\ OnAddError
        /\ UNCHANGED storeVars
  /\ UNCHANGED <<run, urls, fieldFaults, visited, inputVars, dateVars, textVars, subVars>>

\* recordsToAdd.length is 0: nothing to add.
SkipAdd ==
  /\ pc = "add"
  /\ recordsToAdd = <<>>
  /\ pc' = "update"
  /\ UNCHANGED <<run, urls, urlIndex, tableLocals, fieldLocals, scanLocals, writeLocals,
                 fieldFaults, visited, passes, writes, storeVars, inputVars, dateVars, textVars, subVars>>

\* catch (updateError): the failure is logged; the url's processing ends.
OnUpdateError == EndPass("written")

\* One turn of the loop over recordsToUpdate: table.setRecords(batch). The
\* whole loop stands in one try: the first failing batch ends it.
SetRecords ==
  /\ pc = "update"
  /\ recordsToUpdate # <<>>
  /\ LET batch == Chunk(recordsToUpdate, writeIndex) IN
     \/ /\ WriteMaySucceed(batch, env.bad.update)
        /\ tables' = [tables EXCEPT ![tableName].rows = UpdatedRows(@, batch)]
        /\ writes' = Append(writes, WriteEvent("setRecords", batch, TRUE))
        /\ IF writeIndex + batchSize < Len(recordsToUpdate)
           THEN /\ writeIndex' = writeIndex + batchSize
                /\ UNCHANGED <<pc, urlIndex, tableLocals, fieldLocals, scanLocals,
                               recordsToAdd, recordsToUpdate, passes>>
           ELSE EndPass("written")
     \/ /\ WriteMayFail(batch, env.bad.update)
        /\ writes' = Append(writes, WriteEvent("setRecords", batch, FALSE))
        /\ OnUpdateError
        /\ UNCHANGED tables
  /\ UNCHANGED <<run, urls, fieldFaults, visited, nextRecordId, inputVars, dateVars, textVars, subVars>>

\* recordsToUpdate.length is 0: nothing to update.
SkipUpdate ==
  /\ pc = "update"
  /\ recordsToUpdate = <<>>
  /\ EndPass("written")
  /\ UNCHANGED <<run, urls, fieldFaults, visited, writes, storeVars, inputVars, dateVars, textVars, subVars>>

(***************************************************************************)
(* handleVideoText, its final table update (index.tsx): what the four      *)
(* stages left in processingVideos is turned into one list of cell updates *)
(* and written.                                                            *)
(***************************************************************************)

\* The table handleVideoText works on, and the id of its transcript column.
TextTable == "A"
textFieldId == FieldMapOf(tables[TextTable].fields)["video_text_arr"]

\* llm_task_id_list once the cleanup of an item was submitted; Null before.
TaskList(ids) == [kind |-> "list", ids |-> ids]

\* video.video_text_ori || video.video_text_arr
finalTextRawFirst(video) ==
  IF video.video_text_ori # "" THEN video.video_text_ori ELSE video.video_text_arr

\* video.video_text_arr || video.video_text_ori
finalText(video) ==
  IF video.video_text_arr # "" THEN video.video_text_arr ELSE video.video_text_ori

\* Any item that holds a text is written, whatever its status.
IsWritableAnyStatus(video) == finalText(video) # ""

\* The item ends the pipeline with a transcript to write.
IsWritable(video) ==
  /\ video.status = "llm_done" \/ (video.status = "asr_done" /\ video.llm_task_id_list = Null)
  /\ finalText(video) # ""

TextWriteEvent(op, rows, ok) ==
  [op |-> op, run |-> 0, url |-> 0, from |-> 0, rows |-> rows, ok |-> ok]

\* A write of the pipeline fails exactly when it carries a row the datastore
\* rejects.
TextWriteFails(batch) == {i \in 1..Len(batch) : batch[i].recordId \in env.bad.text} # {}

\* The loop over processingVideos: an item that is done and has a transcript
\* gives one update, every other item counts as failed.
ReconcileText ==
  /\ textPc = "reconcile"
  /\ LET writable == SelectSeq(processingVideos, IsWritable)
     IN  /\ textRecordsToUpdate' =
              [j \in 1..Len(writable) |->
                 [recordId |-> writable[j].recordId,
                  fields |-> (textFieldId :> finalText(writable[j]))]]
         /\ failCount' = Len(processingVideos) - Len(writable)
         /\ textPc' = IF writable = <<>> THEN "report" ELSE "write"
  /\ updateCount' = 0
  /\ textIndex' = 0
  /\ UNCHANGED <<processingVideos, syncVars, storeVars, inputVars, dateVars, subVars, stageVars, multiVars>>

\* table.setRecords(recordsToUpdate): the whole list in one call; on a failure
\* the records are written one by one.
SetTextRecords ==
  /\ textPc = "write"
  /\ IF TextWriteFails(textRecordsToUpdate)
     THEN /\ writes' = Append(writes, TextWriteEvent("text.setRecords", Len(textRecordsToUpdate), FALSE))
          /\ textPc' = "single"
          /\ textIndex' = 1
          /\ UNCHANGED <<tables, updateCount>>
     ELSE /\ writes' = Append(writes, TextWriteEvent("text.setRecords", Len(textRecordsToUpdate), TRUE))
          /\ tables' = [tables EXCEPT ![TextTable].rows = UpdatedRows(@, textRecordsToUpdate)]
          /\ updateCount' = Len(textRecordsToUpdate)
          /\ textPc' = "report"
          /\ UNCHANGED textIndex
  /\ UNCHANGED <<processingVideos, textRecordsToUpdate, failCount, nextRecordId, inputVars,
                 dateVars, pc, run, urls, urlIndex, tableLocals, fieldLocals, scanLocals,
                 writeLocals, fieldFaults, visited, passes, subVars, stageVars, multiVars>>

\* One turn of the record-by-record loop: table.setRecord(record.recordId,
\* record); a failure is logged and the loop goes on.
SetTextRecord ==
  /\ textPc = "single"
  /\ LET record == textRecordsToUpdate[textIndex] IN
       IF TextWriteFails(<<record>>)
       THEN /\ writes' = Append(writes, TextWriteEvent("text.setRecord", 1, FALSE))
            /\ UNCHANGED <<tables, updateCount>>
       ELSE /\ writes' = Append(writes, TextWriteEvent("text.setRecord", 1, TRUE))
            /\ tables' = [tables EXCEPT ![TextTable].rows = UpdatedRows(@, <<record>>)]
            /\ updateCount' = updateCount + 1
  /\ textIndex' = textIndex + 1
  /\ textPc' = IF textIndex = Len(textRecordsToUpdate) THEN "report" ELSE "single"
  /\ UNCHANGED <<processingVideos, textRecordsToUpdate, failCount, nextRecordId, inputVars,
                 dateVars, pc, run, urls, urlIndex, tableLocals, fieldLocals, scanLocals,
                 writeLocals, fieldFaults, visited, passes, subVars, stageVars, multiVars>>

\* The closing report and the finally block, which enables the button again.
ReportText ==
  /\ textPc = "report"
  /\ textPc' = "finished"
  /\ textButtonDisabled' = FALSE
  /\ UNCHANGED <<processingVideos, textRecordsToUpdate, updateCount, failCount, textIndex,
                 syncVars, storeVars, inputVars, dateVars, subVars, stageVars, multi>>

(***************************************************************************)
(* The inputs of the synchronisation.                                      *)
(***************************************************************************)

MaxUrls == 2
MaxVideos == 2
MaxRuns == 3

Video(nickname, id, time, arr, ori) ==
  [nickname |-> nickname, aweme_id |-> id, conv_create_time |-> time,
   video_text_arr |-> arr, video_text_ori |-> ori]

\* "ab", " AB ", "cd" and ""
SampleIds == {<<97, 98>>, <<32, 65, 66, 32>>, <<99, 100>>, <<>>}

\* "20231005"
SampleDay == Str(<<50, 48, 50, 51, 49, 48, 48, 53>>)

\* The videos of nickname "A": any sample id with a publish date and no
\* transcript, or the id " " without a publish date and with a transcript.
SampleVideos ==
  {Video("A", id, SampleDay, "", "") : id \in SampleIds} \cup {Video("A", <<32>>, Null, "", "t")}

SeqsUpTo(S, n) == UNION {[1..k -> S] : k \in 0..n}

\* The lines of the url input: a blank line, "u1" and " u2".
UrlLines == {<<32>>, <<117, 49>>, <<32, 117, 50>>}
Url1 == <<117, 49>>
Url2 == <<117, 50>>

\* response.data of the data-collection API: the first url answers with a
\* batch of nickname "A", the second with an error message, an empty list or
\* one video without nickname.
Responses1 == {[kind |-> "videos", videos |-> vs] : vs \in SeqsUpTo(SampleVideos, MaxVideos) \ {<<>>}}
Responses2 ==
  {[kind |-> "message"], [kind |-> "videos", videos |-> <<>>],
   [kind |-> "videos", videos |-> <<Video("", <<97, 98>>, SampleDay, "t", "")>>]}

Row(recordId, id, text) ==
  [recordId |-> recordId, fields |-> ("primary" :> id @@ "video_text_arr" :> text)]

\* Table "A" before the first call: absent, or with the whole schema and no
\* row, one row, two rows under one canonical id, or three rows (two pages)
\* one of which has an empty id; or without two of the columns.
InitialTables ==
  {NoTable}
    \cup {[exists |-> TRUE, fields |-> FullSchema, rows |-> rows] :
            rows \in {<<>>,
                      <<Row(1, <<65, 98>>, "old")>>,
                      <<Row(1, <<97, 98>>, ""), Row(2, <<65, 66, 32>>, "")>>,
                      <<Row(1, <<>>, ""), Row(2, <<97, 98>>, "old"), Row(3, <<99, 100>>, "")>>}}
    \cup {[exists |-> TRUE,
           fields |-> {f \in FullSchema : f.name \notin {"conv_create_time", "video_text_arr"}},
           rows |-> <<[recordId |-> 1, fields |-> ("primary" :> <<97, 98>>)]>>]}

TableNames == {"A", DefaultTableName}

ParamSets ==
  {[username |-> u, passtoken |-> p, platform |-> pf, url |-> url] :
     u \in BOOLEAN, p \in BOOLEAN, pf \in {"douyin", "other"}, url \in SeqsUpTo(UrlLines, MaxUrls)}

\* No subscription was started; the notification address has its default.
SubIdle == subRef = FALSE /\ loops = <<>> /\ tasks = <<>> /\ botWebURL = TRUE

\* No stage of the text pipeline has a call under way.
StageIdle == inflight = {} /\ attempt = 0 /\ handled = {} /\ asrTasks = <<>>

\* startMultiHandleVideoText was never called; the button is enabled.
MultiIdle == textButtonDisabled = FALSE /\ multi = <<>>

\* handleVideoText is not running.
TextIdle ==
  /\ textPc = "idle" /\ processingVideos = <<>> /\ textRecordsToUpdate = <<>>
  /\ updateCount = 0 /\ failCount = 0 /\ textIndex = 0
  /\ StageIdle
  /\ MultiIdle

\* The state before the first call, under environment e.
SyncInit(e) ==
  /\ env = e
  /\ params \in {q \in ParamSets : (~q.username \/ ~q.passtoken \/ q.platform = "other")
                                      => Len(q.url) <= 1}
  /\ remote \in {r \in [{Url1, Url2} -> Responses1 \cup Responses2] :
                   /\ r[Url1] \in Responses1
                   /\ r[Url2] \in Responses2
                   /\ (\A i \in 1..Len(params.url) : Trim(params.url[i]) # Url1)
                        => r[Url1] = [kind |-> "videos", videos |-> <<Video("A", <<97, 98>>, SampleDay, "", "")>>]
                   /\ (\A i \in 1..Len(params.url) : Trim(params.url[i]) # Url2)
                        => r[Url2] = [kind |-> "message"]}
  /\ tz = 480
  /\ tables \in {t \in [TableNames -> InitialTables] : t[DefaultTableName] = NoTable}
  /\ nextRecordId = 4
  /\ pc = "idle" /\ run = 0 /\ urls = <<>> /\ urlIndex = 0
  /\ videos = <<>> /\ tableName = "" /\ isNewTable = FALSE
  /\ fieldMap = EmptyMap /\ toCreate = <<>> /\ fieldFaults = 0
  /\ allRecords = <<>> /\ hasMore = TRUE /\ pageToken = 0 /\ cellIndex = 0
  /\ existingVideoIds = EmptyMap /\ readFailed = {} /\ pageFailed = FALSE
  /\ recordsToAdd = <<>> /\ recordsToUpdate = <<>> /\ writeIndex = 0
  /\ visited = <<>> /\ passes = <<>> /\ writes = <<>>
  /\ rawValue = Null /\ timestamp = Null
  /\ TextIdle
  /\ SubIdle

NoBad == [add |-> {}, update |-> {}, text |-> {}]

vars == <<storeVars, inputVars, syncVars, dateVars, textVars, subVars>>

\* One call of getVideosData in an environment where any call may fail.
Init == SyncInit([faults |-> TRUE, bad |-> NoBad, runs |-> 1])

Next ==
  \/ Start
  \/ Fetch
  \/ FindTable
  \/ AddTable
  \/ RenamePrimary
  \/ ensureFieldsExist
  \/ GetRecords
  \/ ReadCell
  \/ Classify
  \/ AddRecords
  \/ SkipAdd
  \/ SetRecords
  \/ SkipUpdate

Spec == Init /\ [][Next]_vars

\* MaxRuns calls in a row with the same arguments, the same remote answers and
\* no failing call.
InitIdem == SyncInit([faults |-> FALSE, bad |-> NoBad, runs |-> MaxRuns])

SpecIdem == InitIdem /\ [][Next]_vars

(***************************************************************************)
(* One call of getVideosData, without failing calls, for a batch whose     *)
(* videos carry publish times of every kind.                               *)
(***************************************************************************)

\* null, "20231005", "20231332", "19690101", "abc", "2031-12-01",
\* "2024-02-30", "1696492800" and the number 953280000000.
SampleTimes ==
  {Null, SampleDay,
   Str(<<50, 48, 50, 51, 49, 51, 51, 50>>),
   Str(<<49, 57, 54, 57, 48, 49, 48, 49>>),
   Str(<<97, 98, 99>>),
   Str(<<50, 48, 51, 49, 45, 49, 50, 45, 48, 49>>),
   Str(<<50, 48, 50, 52, 45, 48, 50, 45, 51, 48>>),
   Str(<<49, 54, 57, 54, 52, 57, 50, 56, 48, 48>>),
   Num(<<9, 5, 3, 2, 8, 0, 0, 0, 0, 0, 0, 0>>)}

InitPublish ==
  /\ env = [faults |-> FALSE, bad |-> NoBad, runs |-> 1]
  /\ params = [username |-> TRUE, passtoken |-> TRUE, platform |-> "douyin", url |-> <<Url1>>]
  /\ remote \in {[u \in {Url1, Url2} |->
                    IF u = Url1 THEN [kind |-> "videos", videos |-> vs] ELSE [kind |-> "message"]] :
                 vs \in SeqsUpTo({Video("A", id, t, "", "t") : id \in {<<97, 98>>, <<99, 100>>},
                                                                 t \in SampleTimes}, MaxVideos) \ {<<>>}}
  /\ tz \in {-300, 480}
  /\ tables \in {[t \in TableNames |-> IF t = "A" THEN a ELSE NoTable] :
                   a \in {NoTable,
                          [exists |-> TRUE, fields |-> FullSchema,
                           rows |-> <<Row(1, <<65, 98>>, "old")>>]}}
  /\ nextRecordId = 4
  /\ pc = "idle" /\ run = 0 /\ urls = <<>> /\ urlIndex = 0
  /\ videos = <<>> /\ tableName = "" /\ isNewTable = FALSE
  /\ fieldMap = EmptyMap /\ toCreate = <<>> /\ fieldFaults = 0
  /\ allRecords = <<>> /\ hasMore = TRUE /\ pageToken = 0 /\ cellIndex = 0
  /\ existingVideoIds = EmptyMap /\ readFailed = {} /\ pageFailed = FALSE
  /\ recordsToAdd = <<>> /\ recordsToUpdate = <<>> /\ writeIndex = 0
  /\ visited = <<>> /\ passes = <<>> /\ writes = <<>>
  /\ rawValue = Null /\ timestamp = Null
  /\ TextIdle
  /\ SubIdle

SpecPublish == InitPublish /\ [][Next]_vars

(***************************************************************************)
(* The publish-date normalisation on its own: a raw value and a time zone  *)
(* are drawn, and the step of the classification loop that normalises      *)
(* video.conv_create_time is applied to them.                              *)
(***************************************************************************)

MaxMonth == 13
MaxDay == 32
HourSpread == 15

\* n in decimal, w characters wide (leading zeros).
RECURSIVE CharsOf(_, _)
CharsOf(n, w) == IF w = 0 THEN <<>> ELSE Append(CharsOf(n \div 10, w - 1), 48 + (n % 10))

\* n in decimal.
RECURSIVE Decimal(_)
Decimal(n) == IF n < 10 THEN <<48 + n>> ELSE Append(Decimal(n \div 10), 48 + (n % 10))

SampleYears == {50, 1969, 2009, 2010, 2023, 2024, 2030, 2031}

\* YYYYMMDD strings, valid and invalid.
DayStrings ==
  {CharsOf(y, 4) \o CharsOf(m, 2) \o CharsOf(d, 2) :
     y \in SampleYears, m \in 0..MaxMonth, d \in 0..MaxDay}

\* Date strings with separators: "2024-02-29", "2024/2/29", "2031-12-01x", ...
SeparatorStrings ==
  {CharsOf(y, 4) \o <<sep[1]>> \o (IF pad THEN CharsOf(m, 2) ELSE Decimal(m))
     \o <<sep[2]>> \o (IF pad THEN CharsOf(d, 2) ELSE Decimal(d)) \o rest :
     y \in {2005, 2024, 2031}, m \in {1, 2, 12, 13}, d \in {1, 29, 30, 31, 32},
     sep \in {45, 47} \X {45, 47}, pad \in BOOLEAN, rest \in {<<>>, <<120>>}}

\* Epoch seconds around the first and the last instant of the year range (by
\* the hour, and one second earlier), and a few far from it.
SampleSeconds ==
  {b + 3600 * h - e : b \in {1262304000, 1924992000}, h \in (0 - HourSpread)..HourSpread,
                      e \in {0, 1}}
    \cup {0, 2023, 953280000, 1696492800, 2147483647}

\* Digit strings: seconds, milliseconds, seconds with a leading zero, and the
\* largest 10-digit and the smallest 11-digit number.
TimestampStrings ==
  UNION {{Decimal(n), Decimal(n) \o <<48, 48, 48>>, Decimal(n) \o <<57, 57, 57>>,
          <<48>> \o Decimal(n)} : n \in SampleSeconds}
    \cup {[i \in 1..10 |-> 57], <<49>> \o [i \in 1..10 |-> 48]}

\* "", "abc", "2023-x"
OtherStrings == {<<>>, <<97, 98, 99>>, <<50, 48, 50, 51, 45, 120>>}

RawValues ==
  {Str(s) : s \in DayStrings \cup SeparatorStrings \cup TimestampStrings \cup OtherStrings}
    \cup {Num(DigitsOf(s)) : s \in {t \in TimestampStrings : t = <<48>> \/ Head(t) # 48}}
    \cup {Null}

TimeZones == {-720, -300, 0, 480, 840}

\* The normalisation step of the classification loop, for rawValue.
NormalizeDate ==
  /\ pc = "normalize"
  /\ timestamp' \in NormalizePublishTime(rawValue, tz)
  /\ pc' = "normalized"
  /\ UNCHANGED <<run, urls, urlIndex, tableLocals, fieldLocals, scanLocals, writeLocals,
                 fieldFaults, visited, passes, writes, storeVars, inputVars, rawValue, textVars, subVars>>

InitDate ==
  /\ rawValue \in RawValues
  /\ tz \in TimeZones
  /\ timestamp = Null
  /\ pc = "normalize"
  /\ env = [faults |-> FALSE, bad |-> NoBad, runs |-> 0]
  /\ params = [username |-> TRUE, passtoken |-> TRUE, platform |-> "douyin", url |-> <<>>]
  /\ remote = [u \in {Url1, Url2} |-> [kind |-> "message"]]
  /\ tables = [t \in TableNames |-> NoTable]
  /\ nextRecordId = 1
  /\ run = 0 /\ urls = <<>> /\ urlIndex = 0
  /\ videos = <<>> /\ tableName = "" /\ isNewTable = FALSE
  /\ fieldMap = EmptyMap /\ toCreate = <<>> /\ fieldFaults = 0
  /\ allRecords = <<>> /\ hasMore = TRUE /\ pageToken = 0 /\ cellIndex = 0
  /\ existingVideoIds = EmptyMap /\ readFailed = {} /\ pageFailed = FALSE
  /\ recordsToAdd = <<>> /\ recordsToUpdate = <<>> /\ writeIndex = 0
  /\ visited = <<>> /\ passes = <<>> /\ writes = <<>>
  /\ TextIdle
  /\ SubIdle

NextDate == NormalizeDate

SpecDate == InitDate /\ [][NextDate]_vars

(***************************************************************************)
(* The write steps with lists longer than one batch: a call of             *)
(* getVideosData whose response holds up to MaxBatch new and MaxBatch      *)
(* known videos, or the final table update of handleVideoText for up to    *)
(* batchSize + 1 items; no transient fault, and a datastore that rejects   *)
(* the writes carrying certain entries.                                    *)
(***************************************************************************)

MaxBatch == 1200

BatchSizes == {0, 1, batchSize, batchSize + 1, MaxBatch}
TextSizes == {1, batchSize, batchSize + 1}

\* Rows 1 and 2 of the table: ids "ab" and "cd", no transcript.
KnownRows == <<Row(1, <<97, 98>>, ""), Row(2, <<99, 100>>, "")>>

\* A response of known videos (ids "ab" and "cd" in turn) followed by added
\* new ones (their position as id).
BigResponse(known, added) ==
  [kind |-> "videos",
   videos |-> [i \in 1..(known + added) |->
                 Video("A", IF i > known THEN Decimal(i) ELSE KnownRows[2 - (i % 2)].fields["primary"],
                       Null, "", "")]]

\* The entries the datastore rejects: none, or the first entry of the first or
\* of the second batch of a list.
BadFirsts == {{}, {1}, {batchSize + 1}}

InitBatchSync ==
  /\ \E known \in BatchSizes, added \in BatchSizes, exists \in BOOLEAN,
        badAdd \in BadFirsts, badUpdate \in BadFirsts :
       /\ exists \/ (known = 0 /\ badUpdate = {})
       /\ remote = [u \in {Url1, Url2} |->
                      IF u = Url1 THEN BigResponse(IF exists THEN known ELSE 0, added)
                      ELSE [kind |-> "message"]]
       /\ tables = [t \in TableNames |->
                      IF t = "A" /\ exists
                      THEN [exists |-> TRUE, fields |-> FullSchema, rows |-> KnownRows]
                      ELSE NoTable]
       \* positions in the response: the known videos come first
       /\ env = [faults |-> FALSE, runs |-> 1,
                 bad |-> [add |-> {(IF exists THEN known ELSE 0) + i : i \in badAdd},
                          update |-> badUpdate, text |-> {}]]
  /\ params = [username |-> TRUE, passtoken |-> TRUE, platform |-> "douyin", url |-> <<Url1>>]
  /\ tz = 480
  /\ nextRecordId = 3
  /\ pc = "idle" /\ run = 0 /\ urls = <<>> /\ urlIndex = 0
  /\ videos = <<>> /\ tableName = "" /\ isNewTable = FALSE
  /\ fieldMap = EmptyMap /\ toCreate = <<>> /\ fieldFaults = 0
  /\ allRecords = <<>> /\ hasMore = TRUE /\ pageToken = 0 /\ cellIndex = 0
  /\ existingVideoIds = EmptyMap /\ readFailed = {} /\ pageFailed = FALSE
  /\ recordsToAdd = <<>> /\ recordsToUpdate = <<>> /\ writeIndex = 0
  /\ visited = <<>> /\ passes = <<>> /\ writes = <<>>
  /\ rawValue = Null /\ timestamp = Null
  /\ TextIdle
  /\ SubIdle

\* The items after the four stages: all done with a cleaned transcript, or in
\* turn failed, done with a cleaned transcript, transcribed with no cleanup
\* asked for, transcribed and waiting for a cleanup, done without any text.
ProcessedVideo(i, mixed) ==
  LET k == IF mixed THEN i % 5 ELSE 1
  IN  [recordId |-> i,
       status |-> CASE k = 0 -> "failed" [] k \in {1, 4} -> "llm_done" [] OTHER -> "asr_done",
       llm_task_id_list |-> IF k \in {1, 3, 4} THEN TaskList(<<"task">>) ELSE Null,
       video_text_arr |-> IF k = 1 THEN "t" ELSE "",
       video_text_ori |-> IF k \in {1, 2, 3} THEN "o" ELSE ""]

InitBatchText ==
  /\ \E n \in TextSizes, mixed \in BOOLEAN, bad \in BadFirsts \cup {{2}} :
       /\ processingVideos = [i \in 1..n |-> ProcessedVideo(i, mixed)]
       /\ tables = [t \in TableNames |->
                      IF t = TextTable
                      THEN [exists |-> TRUE, fields |-> FullSchema,
                            rows |-> [i \in 1..n |-> Row(i, Decimal(i), "")]]
                      ELSE NoTable]
       /\ nextRecordId = n + 1
       /\ env = [faults |-> FALSE, runs |-> 0, bad |-> [add |-> {}, update |-> {}, text |-> bad]]
  /\ SubIdle
  /\ textPc = "reconcile" /\ textRecordsToUpdate = <<>>
  /\ updateCount = 0 /\ failCount = 0 /\ textIndex = 0
  /\ StageIdle
  /\ textButtonDisabled = TRUE /\ multi = <<>>
  /\ params = [username |-> TRUE, passtoken |-> TRUE, platform |-> "douyin", url |-> <<>>]
  /\ remote = [u \in {Url1, Url2} |-> [kind |-> "message"]]
  /\ tz = 480
  /\ pc = "idle" /\ run = 0 /\ urls = <<>> /\ urlIndex = 0
  /\ videos = <<>> /\ tableName = "" /\ isNewTable = FALSE
  /\ fieldMap = EmptyMap /\ toCreate = <<>> /\ fieldFaults = 0
  /\ allRecords = <<>> /\ hasMore = TRUE /\ pageToken = 0 /\ cellIndex = 0
  /\ existingVideoIds = EmptyMap /\ readFailed = {} /\ pageFailed = FALSE
  /\ recordsToAdd = <<>> /\ recordsToUpdate = <<>> /\ writeIndex = 0
  /\ visited = <<>> /\ passes = <<>> /\ writes = <<>>
  /\ rawValue = Null /\ timestamp = Null

InitBatch == InitBatchSync \/ InitBatchText

NextBatch ==
  \/ Start
  \/ Fetch
  \/ FindTable
  \/ AddTable
  \/ RenamePrimary
  \/ ensureFieldsExist
  \/ GetRecords
  \/ ReadCell
  \/ Classify
  \/ AddRecords
  \/ SkipAdd
  \/ SetRecords
  \/ SkipUpdate
  \/ ReconcileText
  \/ SetTextRecords
  \/ SetTextRecord
  \/ ReportText

SpecBatch == InitBatch /\ [][NextBatch]_vars

(***************************************************************************)
(* handleVideoText from the click on: the items are collected from the     *)
(* table, then submitAsrTasks, pollAsrResults, submitLlmTasks and          *)
(* pollLlmResults (./utils/get_videostext) are awaited one after the other *)
(* on the shared list processingVideos, and the final table update         *)
(* follows. The four stage functions are modelled from their description:  *)
(* every remote call goes through one limiter, a polling stage works in    *)
(* rounds, and a response changes only the item it belongs to. A step is   *)
(* the start of a call, the arrival of a response, the end of a round or   *)
(* the resumption of handleVideoText after an awaited stage.               *)
(***************************************************************************)

MaxItems == 2
MaxSegments == 2

\* The cap of the shared limiter and the number of polling rounds of a stage.
ConcurrencyCap == 2
MaxAttempts == 2

ASR_TASK_EXIST_MARKER == "EXIST"
LLM_TASK_EXIST_MARKER == <<"EXIST">>
isLlmTaskExistMarker(list) == list # Null /\ Len(list.ids) = 1 /\ list.ids[1] = "EXIST"

Stages == <<"submitAsrTasks", "pollAsrResults", "submitLlmTasks", "pollLlmResults">>
InStage(k) == textPc = Stages[k]

\* processingVideos.push({recordId, aweme_id, play_addr, audio_addr, status:
\* 'pending'}); the fields the stages fill in later are unset.
NewItem(table, recordId) ==
  [recordId |-> recordId,
   aweme_id |-> getCellString(table, FieldMapOf(table.fields)["aweme_id"], recordId),
   play_addr |-> IF "play_addr" \in DOMAIN FieldMapOf(table.fields)
                 THEN getCellString(table, FieldMapOf(table.fields)["play_addr"], recordId)
                 ELSE <<>>,
   status |-> "pending",
   asr_task_id |-> "",
   llm_task_id_list |-> Null,
   segments |-> <<>>,
   video_text_ori |-> "",
   video_text_arr |-> ""]

\* Every row that was read and has a video id becomes an item, with or
\* without a transcript.
NeedsTextUnseen(table, skipped, row) ==
  /\ row.recordId \notin skipped
  /\ getCellString(table, FieldMapOf(table.fields)["aweme_id"], row.recordId) # <<>>

\* The rows handleVideoText turns into items: read without an error, the
\* transcript cell empty, the video id not empty.
NeedsText(table, skipped, row) ==
  /\ row.recordId \notin skipped
  /\ getCellString(table, FieldMapOf(table.fields)["video_text_arr"], row.recordId) = ""
  /\ getCellString(table, FieldMapOf(table.fields)["aweme_id"], row.recordId) # <<>>

\* handleVideoText up to the first stage: credentials, the selected table,
\* its columns, the rows without a transcript and their details. A failing
\* cell read drops the row; any other failure ends the call.
CollectText ==
  /\ textPc = "idle"
  /\ LET table == tables[TextTable]
         ready == /\ params.username /\ params.passtoken
                  /\ table.exists
                  /\ {"video_text_arr", "aweme_id"} \subseteq DOMAIN FieldMapOf(table.fields)
     IN  \/ /\ ~ready \/ Faulty
            /\ textPc' = "finished"
            /\ UNCHANGED <<processingVideos, stageVars>>
         \/ /\ ready
            /\ \E skipped \in (IF Faulty
                               THEN SubsetsUpTo({r.recordId : r \in Range(table.rows)}, 1)
                               ELSE {{}}) :
                 LET Needs(row) == NeedsText(table, skipped, row)
                     found == SelectSeq(table.rows, Needs)
                 IN  IF found = <<>>
                     THEN /\ textPc' = "finished"
                          /\ UNCHANGED <<processingVideos, stageVars>>
                     ELSE /\ processingVideos' =
                               [i \in 1..Len(found) |-> NewItem(table, found[i].recordId)]
                          /\ textPc' = Stages[1]
                          /\ inflight' = {}
                          /\ attempt' = 1
                          /\ handled' = {}
                          /\ asrTasks' = [i \in 1..Len(found) |-> 0]
  /\ textButtonDisabled' = (textPc' # "finished")
  /\ UNCHANGED <<textRecordsToUpdate, updateCount, failCount, textIndex, multi,
                 syncVars, storeVars, inputVars, dateVars, subVars>>

\* One remote call of a stage: for item i, and for its cleanup segment seg in
\* the last stage.
Call(stage, i, seg) == [stage |-> stage, item |-> i, seg |-> seg]

\* Every call starts at once.
NoLimit == TRUE

\* The limiter lets a further call start.
HasFreeSlot == Cardinality(inflight) < ConcurrencyCap

Items == 1..Len(processingVideos)
StatusOf(i) == processingVideos[i].status
WithStatus(status) == {i \in Items : StatusOf(i) = status}

\* An item the first stage can submit: it has an address to transcribe.
HasSource(video) == video.play_addr # <<>>

\* The stage takes its items in list order.
Lowest(S) == CHOOSE i \in S : \A j \in S : i <= j

StageRest == <<textRecordsToUpdate, updateCount, failCount, textIndex, multiVars,
               syncVars, storeVars, inputVars, dateVars, subVars>>

\* Stage 1, the start of a submission: the item leaves pending.
StartSubmitAsr ==
  /\ InStage(1)
  /\ HasFreeSlot
  /\ LET ready == {i \in WithStatus("pending") : HasSource(processingVideos[i])}
     IN  /\ ready # {}
         /\ processingVideos' = [processingVideos EXCEPT ![Lowest(ready)].status = "asr_posting"]
         /\ inflight' = inflight \cup {Call(1, Lowest(ready), 0)}
  /\ UNCHANGED <<textPc, attempt, handled, asrTasks, StageRest>>

\* Stage 1, an item without an address is not submitted; it may be marked
\* failed.
RejectNoSource ==
  /\ InStage(1)
  /\ \E i \in WithStatus("pending") :
       /\ ~HasSource(processingVideos[i])
       /\ processingVideos' = [processingVideos EXCEPT ![i].status = "failed"]
  /\ UNCHANGED <<textPc, inflight, attempt, handled, asrTasks, StageRest>>

\* The marker is answered by creating the task once more.
SubmitAsrResponseResubmit ==
  /\ \E c \in inflight, answer \in {"task", ASR_TASK_EXIST_MARKER, "error"} :
       /\ c.stage = 1
       /\ inflight' = inflight \ {c}
       /\ processingVideos' =
            [processingVideos EXCEPT
               ![c.item].status = IF answer = "error" THEN "failed" ELSE "asr_polling",
               ![c.item].asr_task_id = IF answer = "error" THEN @ ELSE answer]
       /\ asrTasks' = [asrTasks EXCEPT ![c.item] = IF answer = "error" THEN @ ELSE @ + 1]
  /\ UNCHANGED <<textPc, attempt, handled, StageRest>>

\* Stage 1, the response of a submission: a fresh task reference, the marker
\* of a task that exists already, or a failure of this item alone.
SubmitAsrResponse ==
  /\ \E c \in inflight, answer \in {"task", ASR_TASK_EXIST_MARKER, "error"} :
       /\ c.stage = 1
       /\ inflight' = inflight \ {c}
       /\ processingVideos' =
            [processingVideos EXCEPT
               ![c.item].status = IF answer = "error" THEN "failed" ELSE "asr_polling",
               ![c.item].asr_task_id = IF answer = "error" THEN @ ELSE answer]
       /\ asrTasks' = [asrTasks EXCEPT ![c.item] = IF answer = "task" THEN @ + 1 ELSE @]
  /\ UNCHANGED <<textPc, attempt, handled, StageRest>>

\* Stage 2, the start of a poll: once per round for every item still polling.
StartPollAsr ==
  /\ InStage(2)
  /\ HasFreeSlot
  /\ LET due == {i \in WithStatus("asr_polling") : <<i, 0>> \notin handled}
     IN  /\ due # {}
         /\ inflight' = inflight \cup {Call(2, Lowest(due), 0)}
         /\ handled' = handled \cup {<<Lowest(due), 0>>}
  /\ UNCHANGED <<textPc, processingVideos, attempt, asrTasks, StageRest>>

\* Stage 2, the response of a poll: the transcript (for a task that existed
\* already, possibly at once), not ready yet, or a failure.
PollAsrResponse ==
  /\ \E c \in inflight, answer \in {"text", "wait", "error"} :
       /\ c.stage = 2
       /\ inflight' = inflight \ {c}
       /\ processingVideos' =
            CASE answer = "text" ->
                   [processingVideos EXCEPT ![c.item].status = "asr_done",
                                            ![c.item].video_text_ori = "o"]
              [] answer = "error" -> [processingVideos EXCEPT ![c.item].status = "failed"]
              [] OTHER -> processingVideos
  /\ UNCHANGED <<textPc, attempt, handled, asrTasks, StageRest>>

\* The polls of a round are all answered and items are still waiting.
RoundOver(status) ==
  /\ inflight = {}
  /\ WithStatus(status) # {}
  /\ \A i \in WithStatus(status) : \E h \in handled : h[1] = i

\* After the last round the items still waiting are queued again.
EndRoundRequeue(status) ==
  /\ processingVideos' =
       [i \in Items |-> IF StatusOf(i) = status
                        THEN [processingVideos[i] EXCEPT !.status = "pending"]
                        ELSE processingVideos[i]]
  /\ UNCHANGED <<attempt, handled>>

\* A round is followed by another one, however many there were.
EndRoundAgain(status) ==
  /\ handled' = {}
  /\ UNCHANGED <<attempt, processingVideos>>

\* The end of a round of a polling stage: the next round, or, after the last
\* one, the failure of every item still waiting.
EndRound(status) ==
  IF attempt < MaxAttempts
  THEN /\ attempt' = attempt + 1
       /\ handled' = {}
       /\ UNCHANGED processingVideos
  ELSE /\ processingVideos' =
            [i \in Items |-> IF StatusOf(i) = status
                             THEN [processingVideos[i] EXCEPT !.status = "failed"]
                             ELSE processingVideos[i]]
       /\ UNCHANGED <<attempt, handled>>

NextAsrRound ==
  /\ InStage(2)
  /\ RoundOver("asr_polling")
  /\ EndRound("asr_polling")
  /\ UNCHANGED <<textPc, inflight, asrTasks, StageRest>>

\* Stage 3, an item that needs no cleanup: it stays asr_done, without a task
\* list.
SkipCleanup ==
  /\ InStage(3)
  /\ LET open == {i \in WithStatus("asr_done") : <<i, 0>> \notin handled}
     IN  /\ open # {}
         /\ handled' = handled \cup {<<Lowest(open), 0>>}
  /\ UNCHANGED <<textPc, processingVideos, inflight, attempt, asrTasks, StageRest>>

\* Stage 3, the start of the submission of a cleanup.
StartSubmitLlm ==
  /\ InStage(3)
  /\ HasFreeSlot
  /\ LET open == {i \in WithStatus("asr_done") : <<i, 0>> \notin handled}
     IN  /\ open # {}
         /\ processingVideos' = [processingVideos EXCEPT ![Lowest(open)].status = "llm_posting"]
         /\ inflight' = inflight \cup {Call(3, Lowest(open), 0)}
         /\ handled' = handled \cup {<<Lowest(open), 0>>}
  /\ UNCHANGED <<textPc, attempt, asrTasks, StageRest>>

\* Stage 3, the response: one task reference per segment, the one-element
\* marker list, or a failure.
SubmitLlmResponse ==
  /\ \E c \in inflight, n \in 0..MaxSegments, exist \in BOOLEAN :
       /\ c.stage = 3
       /\ exist => n = 1
       /\ inflight' = inflight \ {c}
       /\ processingVideos' =
            IF n = 0
            THEN [processingVideos EXCEPT ![c.item].status = "failed"]
            ELSE [processingVideos EXCEPT
                    ![c.item].status = "llm_polling",
                    ![c.item].llm_task_id_list =
                       TaskList(IF exist THEN LLM_TASK_EXIST_MARKER ELSE [k \in 1..n |-> "task"]),
                    ![c.item].segments = [k \in 1..n |-> "wait"]]
  /\ UNCHANGED <<textPc, attempt, handled, asrTasks, StageRest>>

\* Stage 4, the start of the poll of one segment.
StartPollLlm ==
  /\ InStage(4)
  /\ HasFreeSlot
  /\ LET due == {h \in WithStatus("llm_polling") \X (1..MaxSegments) :
                   /\ h[2] \in DOMAIN processingVideos[h[1]].segments
                   /\ processingVideos[h[1]].segments[h[2]] = "wait"
                   /\ h \notin handled}
         first == CHOOSE h \in due : \A g \in due :
                    h[1] < g[1] \/ (h[1] = g[1] /\ h[2] <= g[2])
     IN  /\ due # {}
         /\ inflight' = inflight \cup {Call(4, first[1], first[2])}
         /\ handled' = handled \cup {first}
  /\ UNCHANGED <<textPc, processingVideos, attempt, asrTasks, StageRest>>

\* The item after one of its segments was answered: failed with a failed
\* segment, llm_done with the texts joined once every segment has its text;
\* an answer for an item that has failed already changes nothing.
Aggregate(video, seg, answer) ==
  IF video.status # "llm_polling" THEN video
  ELSE IF answer = "error"
       THEN [video EXCEPT !.status = "failed", !.segments[seg] = answer]
  ELSE IF \A k \in DOMAIN video.segments : k = seg \/ video.segments[k] = "text"
       THEN [video EXCEPT !.status = IF answer = "text" THEN "llm_done" ELSE @,
                          !.segments[seg] = answer,
                          !.video_text_arr = IF answer = "text" THEN "t" ELSE @]
  ELSE [video EXCEPT !.segments[seg] = answer]

\* Stage 4, the response of the poll of one segment.
PollLlmResponse ==
  /\ \E c \in inflight, answer \in {"text", "wait", "error"} :
       /\ c.stage = 4
       /\ inflight' = inflight \ {c}
       /\ processingVideos' =
            [processingVideos EXCEPT
               ![c.item] = Aggregate(@, c.seg, answer)]
  /\ UNCHANGED <<textPc, attempt, handled, asrTasks, StageRest>>

NextLlmRound ==
  /\ InStage(4)
  /\ RoundOver("llm_polling")
  /\ EndRound("llm_polling")
  /\ UNCHANGED <<textPc, inflight, asrTasks, StageRest>>

\* The promise of stage k is settled: no call of it is under way and no item
\* is left for it.
StageOver(k) ==
  /\ inflight = {}
  /\ CASE k = 1 -> \A i \in WithStatus("pending") : ~HasSource(processingVideos[i])
       [] k = 2 -> WithStatus("asr_polling") = {}
       [] k = 3 -> \A i \in WithStatus("asr_done") : <<i, 0>> \in handled
       [] OTHER -> WithStatus("llm_polling") = {}

\* await: handleVideoText goes on when the promise is settled.
AwaitDropped(settled) == TRUE
Await(settled) == settled

\* handleVideoText resumes after the awaited stage and calls the next one,
\* or starts the final update after the last.
AdvanceStage ==
  /\ \E k \in 1..Len(Stages) :
       /\ InStage(k)
       /\ Await(StageOver(k))
       /\ textPc' = IF k < Len(Stages) THEN Stages[k + 1] ELSE "reconcile"
  /\ attempt' = 1
  /\ handled' = {}
  /\ UNCHANGED <<processingVideos, inflight, asrTasks, StageRest>>

\* A row of the table handleVideoText reads: its video id, its transcript and
\* its download address.
TextRow(recordId, id, text, addr) ==
  [recordId |-> recordId,
   fields |-> ("primary" :> id @@ "video_text_arr" :> text @@ "play_addr" :> addr)]

\* The table: MaxItems rows without a transcript, the last of which may lack
\* its address or its video id, and one row that has its transcript.
TextTables ==
  {[exists |-> TRUE, fields |-> FullSchema,
    rows |-> [i \in 1..MaxItems + 1 |->
                IF i = MaxItems + 1 THEN TextRow(i, Decimal(i), "old", <<47>>)
                ELSE TextRow(i, IF i = MaxItems /\ ~id THEN <<>> ELSE Decimal(i), "",
                             IF i = MaxItems /\ ~addr THEN <<>> ELSE <<47>>)]] :
     id \in BOOLEAN, addr \in BOOLEAN}
    \cup {[exists |-> TRUE, fields |-> FullSchema \ {PlainField("video_text_arr")},
           rows |-> <<Row(1, Decimal(1), "")>>]}

InitText ==
  /\ \E faults \in BOOLEAN, bad \in {{}, {1}, {2}}, table \in TextTables :
       /\ env = [faults |-> faults, runs |-> 0,
                 bad |-> [add |-> {}, update |-> {}, text |-> bad]]
       /\ tables = [t \in TableNames |-> IF t = TextTable THEN table ELSE NoTable]
  /\ params \in {q \in ParamSets : q.url = <<>> /\ q.platform = "douyin" /\ q.username}
  /\ nextRecordId = MaxItems + 2
  /\ remote = [u \in {Url1, Url2} |-> [kind |-> "message"]]
  /\ tz = 480
  /\ pc = "idle" /\ run = 0 /\ urls = <<>> /\ urlIndex = 0
  /\ videos = <<>> /\ tableName = "" /\ isNewTable = FALSE
  /\ fieldMap = EmptyMap /\ toCreate = <<>> /\ fieldFaults = 0
  /\ allRecords = <<>> /\ hasMore = TRUE /\ pageToken = 0 /\ cellIndex = 0
  /\ existingVideoIds = EmptyMap /\ readFailed = {} /\ pageFailed = FALSE
  /\ recordsToAdd = <<>> /\ recordsToUpdate = <<>> /\ writeIndex = 0
  /\ visited = <<>> /\ passes = <<>> /\ writes = <<>>
  /\ rawValue = Null /\ timestamp = Null
  /\ TextIdle
  /\ SubIdle

NextText ==
  \/ CollectText
  \/ StartSubmitAsr
  \/ RejectNoSource
  \/ SubmitAsrResponse
  \/ StartPollAsr
  \/ PollAsrResponse
  \/ NextAsrRound
  \/ SkipCleanup
  \/ StartSubmitLlm
  \/ SubmitLlmResponse
  \/ StartPollLlm
  \/ PollLlmResponse
  \/ NextLlmRound
  \/ AdvanceStage
  \/ ReconcileText
  \/ SetTextRecords
  \/ SetTextRecord
  \/ ReportText

SpecText == InitText /\ [][NextText]_vars

\* The event loop runs every continuation that is ready, and every remote
\* call is answered or times out: a step that is possible is not put off for
\* ever.
SpecTextLive == SpecText /\ WF_vars(NextText)

(***************************************************************************)
(* The subscription scheduler (index.tsx): bloggersSubscribe,              *)
(* executeSubscriptionTask and cancelSubscription. A step is one turn of   *)
(* the event loop: a click, a timer callback together with the             *)
(* continuations it resolves, or the stretch of a task between two awaited *)
(* calls. The period is counted in checks of the 5-second interval timer.  *)
(***************************************************************************)

\* Calls of bloggersSubscribe followed.
MaxLoops == 2

\* Calls of executeSubscriptionTask followed at a time: a new task takes the
\* place of one that has ended.
MaxTasks == 2

\* intervalHours * 3600 * 1000 / 5000: the interval checks of one period.
PeriodTicks == 2

\* The cycle number of a loop is counted up to MaxCycles.
MaxCycles == 2

\* The record ids the datastore hands out during the cycles.
MaxRecordId == 3

\* The id cells of the rows a cycle inserts: " ab" and " ".
NewIdCells == {<<32, 97, 98>>, <<32>>}

\* bitable.base.getTableList(): the tables of the base, in a fixed order.
getTableList(base) ==
  SelectSeq(<<"A", DefaultTableName>>, LAMBDA n : base[n].exists)

\* table.getRecordIdList()
getRecordIdList(table) == [i \in 1..Len(table.rows) |-> table.rows[i].recordId]

\* A slot without a task.
NoTask ==
  [pc |-> "free", loop |-> 0, cycle |-> 0, tableList |-> <<>>, k |-> 0,
   allInitialRecords |-> EmptyMap, currentRecords |-> EmptyMap,
   allNewRecords |-> <<>>, calls |-> 0, aweme_ids |-> <<>>]

\* The slots a new task may take.
FreeSlots == {s \in DOMAIN tasks : tasks[s].pc \in {"free", "done", "failed"}}

\* void executeSubscriptionTask(): the task runs up to its first awaited
\* call, getTableList.
executeSubscriptionTask(s, l, cycle) ==
  tasks' = [tasks EXCEPT ![s] = [NoTask EXCEPT !.pc = "tables", !.loop = l, !.cycle = cycle]]

\* The loop has left its while statement.
EndLoop(l) == loops' = [loops EXCEPT ![l].pc = "ended"]

\* A click on the subscribe button, which is disabled while isSubscribed is
\* set: the flag is set, the loop is entered, the first task is dispatched
\* and the wait begins. Without address, username or passtoken the call
\* returns at once.
bloggersSubscribe ==
  /\ ~subRef
  /\ botWebURL /\ params.username /\ params.passtoken
  /\ Len(loops) < MaxLoops
  /\ subRef' = TRUE
  /\ loops' = Append(loops, [pc |-> "wait", elapsed |-> 0, cycle |-> 1,
                             cancelRequested |-> FALSE, lateDispatch |-> FALSE])
  /\ \E s \in FreeSlots : executeSubscriptionTask(s, Len(loops) + 1, 1)
  /\ UNCHANGED <<botWebURL, storeVars, inputVars, syncVars, dateVars, textVars>>

\* A click on the cancel button. cancelRequested remembers, for every loop
\* that is waiting, that the cancellation was asked for during its wait.
cancelSubscription ==
  /\ subRef
  /\ subRef' = FALSE
  /\ loops' = [l \in DOMAIN loops |->
                 IF loops[l].pc = "wait" THEN [loops[l] EXCEPT !.cancelRequested = TRUE]
                 ELSE loops[l]]
  /\ UNCHANGED <<tasks, botWebURL, storeVars, inputVars, syncVars, dateVars, textVars>>

\* The callback of setInterval(..., 5000): when the flag is down the wait
\* is resolved, and the loop head that follows reads the flag and leaves.
IntervalCheck(l) ==
  /\ loops[l].pc = "wait"
  /\ loops[l].elapsed < PeriodTicks
  /\ IF ~subRef THEN EndLoop(l)
     ELSE loops' = [loops EXCEPT ![l].elapsed = @ + 1]
  /\ UNCHANGED <<subRef, tasks, botWebURL, storeVars, inputVars, syncVars, dateVars, textVars>>

NextCycle(n) == IF n < MaxCycles THEN n + 1 ELSE MaxCycles

\* A loop head that dispatches the next task only once the task of the
\* cycle before has ended.
PeriodElapsedSerialized(l) ==
  /\ loops[l].pc = "wait"
  /\ loops[l].elapsed \in {PeriodTicks - 1, PeriodTicks}
  /\ IF subRef
     THEN /\ \A s \in DOMAIN tasks : tasks[s].loop = l => s \in FreeSlots
          /\ loops' = [loops EXCEPT ![l].elapsed = 0,
                                    ![l].cycle = NextCycle(@),
                                    ![l].lateDispatch = @ \/ loops[l].cancelRequested]
          /\ \E s \in FreeSlots : executeSubscriptionTask(s, l, NextCycle(loops[l].cycle))
     ELSE EndLoop(l) /\ UNCHANGED tasks
  /\ UNCHANGED <<subRef, botWebURL, storeVars, inputVars, syncVars, dateVars, textVars>>

\* The callback of setTimeout(..., intervalHours * 3600 * 1000), due together
\* with the last interval check: the wait is resolved and the loop head
\* reads the flag; when it is up the next task is dispatched, without a look
\* at the tasks dispatched before, and the next wait begins.
PeriodElapsed(l) ==
  /\ loops[l].pc = "wait"
  /\ loops[l].elapsed \in {PeriodTicks - 1, PeriodTicks}
  /\ IF subRef
     THEN /\ loops' = [loops EXCEPT ![l].elapsed = 0,
                                    ![l].cycle = NextCycle(@),
                                    ![l].lateDispatch = @ \/ loops[l].cancelRequested]
          /\ \E s \in FreeSlots : executeSubscriptionTask(s, l, NextCycle(loops[l].cycle))
     ELSE EndLoop(l) /\ UNCHANGED tasks
  /\ UNCHANGED <<subRef, botWebURL, storeVars, inputVars, syncVars, dateVars, textVars>>

\* What a step of task s leaves alone.
TaskFrame == UNCHANGED <<subRef, loops, botWebURL, inputVars, syncVars, dateVars, textVars>>

\* const tables = await bitable.base.getTableList()
TaskGetTableList(s) ==
  /\ tasks[s].pc = "tables"
  /\ LET list == getTableList(tables)
     IN  tasks' = [tasks EXCEPT ![s].tableList = list,
                                ![s].k = 1,
                                ![s].pc = IF list = <<>> THEN "sync" ELSE "snapshot"]
  /\ UNCHANGED storeVars
  /\ TaskFrame

\* One turn of the snapshot loop: allInitialRecords.set(tableId, records).
TaskSnapshot(s) ==
  /\ tasks[s].pc = "snapshot"
  /\ LET t == tasks[s]
         tableId == t.tableList[t.k]
     IN  tasks' = [tasks EXCEPT
                     ![s].allInitialRecords = Put(@, tableId, getRecordIdList(tables[tableId])),
                     ![s].k = @ + 1,
                     ![s].pc = IF t.k = Len(t.tableList) THEN "sync" ELSE "snapshot"]
  /\ UNCHANGED storeVars
  /\ TaskFrame

\* The table has the video-id column.
HasVideoIdField(table) == "aweme_id" \in {f.name : f \in table.fields}

\* await getVideosData(...), one of its writes: a table that does not exist
\* is created, with its primary column renamed to the video-id column unless
\* the renaming fails, or a row is inserted into a table that has the
\* video-id column (a video is skipped when the column is not mapped).
TaskSyncWrite(s) ==
  /\ tasks[s].pc = "sync"
  /\ \/ \E n \in DOMAIN tables, renamed \in BOOLEAN :
          /\ ~tables[n].exists
          /\ renamed \/ Faulty
          /\ tables' = [tables EXCEPT ![n] =
                          [exists |-> TRUE,
                           fields |-> {PrimaryField(IF renamed THEN "aweme_id" ELSE "primary")},
                           rows |-> <<>>]]
          /\ UNCHANGED nextRecordId
     \/ \E n \in DOMAIN tables, cell \in NewIdCells :
          /\ tables[n].exists /\ HasVideoIdField(tables[n])
          /\ nextRecordId <= MaxRecordId
          /\ tables' = [tables EXCEPT ![n].rows =
                          Append(@, [recordId |-> nextRecordId, fields |-> ("primary" :> cell)])]
          /\ nextRecordId' = nextRecordId + 1
  /\ UNCHANGED tasks
  /\ TaskFrame

\* getVideosData and startMultiHandleVideoText have returned; the second
\* writes cells of rows that exist and no row.
TaskSyncReturn(s) ==
  /\ tasks[s].pc = "sync"
  /\ tasks' = [tasks EXCEPT ![s].k = 1,
                            ![s].pc = IF tasks[s].tableList = <<>> THEN "notify" ELSE "diff"]
  /\ UNCHANGED storeVars
  /\ TaskFrame

\* awemeId?.trim() || null for every new row, then filter(Boolean)
AwemeIdsOf(table, newRecordIds) ==
  LET fieldId == (CHOOSE f \in table.fields : f.name = "aweme_id").id
      cells == [i \in 1..Len(newRecordIds) |-> Trim(getCellString(table, fieldId, newRecordIds[i]))]
  IN  SelectSeq(cells, LAMBDA c : c # <<>>)

\* currentRecords.filter(id => !initialRecords.includes(id))
NewRecordIds(currentRecords, initialRecords) ==
  SelectSeq(currentRecords, LAMBDA id : id \notin Range(initialRecords))

\* One turn of the loop that detects the new rows, over the tables listed at
\* the start of the task: a table with new rows and the video-id column adds
\* one entry to allNewRecords.
TaskDiff(s) ==
  /\ tasks[s].pc = "diff"
  /\ LET t == tasks[s]
         tableId == t.tableList[t.k]
         currentRecords == getRecordIdList(tables[tableId])
         newRecordIds == NewRecordIds(currentRecords, t.allInitialRecords[tableId])
     IN  tasks' = [tasks EXCEPT
                     ![s].currentRecords = Put(@, tableId, currentRecords),
                     ![s].allNewRecords =
                        IF newRecordIds # <<>> /\ HasVideoIdField(tables[tableId])
                        THEN Append(@, [tableId |-> tableId,
                                        awemeIds |-> AwemeIdsOf(tables[tableId], newRecordIds)])
                        ELSE @,
                     ![s].k = @ + 1,
                     ![s].pc = IF t.k = Len(t.tableList) THEN "notify" ELSE "diff"]
  /\ UNCHANGED storeVars
  /\ TaskFrame

\* allNewRecords.flatMap(r => r.awemeIds)
RECURSIVE FlatMapAwemeIds(_)
FlatMapAwemeIds(records) ==
  IF records = <<>> THEN <<>> ELSE Head(records).awemeIds \o FlatMapAwemeIds(Tail(records))

\* A notification is sent only when some new row has an id that is not blank.
ShouldNotifyForIds(allNewRecords) == FlatMapAwemeIds(allNewRecords) # <<>>

\* if (allNewRecords.length > 0)
ShouldNotify(allNewRecords) == Len(allNewRecords) > 0

\* A task that has returned: its snapshot is gone; the entries it found, the
\* notification calls it made and the ids it sent are remembered.
Returned(t, pc_, calls, aweme_ids) ==
  [NoTask EXCEPT !.pc = pc_, !.loop = t.loop, !.cycle = t.cycle,
                 !.allNewRecords = t.allNewRecords,
                 !.calls = calls, !.aweme_ids = aweme_ids]

\* The end of the task: one axios.post with the ids of all entries, or none.
\* A failed post is caught like any other failure and ends the task as well.
TaskNotify(s) ==
  /\ tasks[s].pc = "notify"
  /\ tasks' = [tasks EXCEPT ![s] =
                 IF ShouldNotify(tasks[s].allNewRecords)
                 THEN Returned(@, "done", @.calls + 1, FlatMapAwemeIds(@.allNewRecords))
                 ELSE Returned(@, "done", @.calls, @.aweme_ids)]
  /\ UNCHANGED storeVars
  /\ TaskFrame

\* The failure of an awaited call is thrown on to the loop that dispatched
\* the task, which leaves its while statement.
TaskCatchEndsLoop(s) ==
  /\ Faulty
  /\ tasks[s].pc \in {"tables", "snapshot", "sync", "diff"}
  /\ tasks' = [tasks EXCEPT ![s] = Returned(@, "failed", @.calls, @.aweme_ids)]
  /\ loops' = [loops EXCEPT ![tasks[s].loop].pc = "ended"]
  /\ UNCHANGED <<subRef, botWebURL, storeVars, inputVars, syncVars, dateVars, textVars>>

\* catch (error): an awaited call before the notification has thrown.
TaskCatch(s) ==
  /\ Faulty
  /\ tasks[s].pc \in {"tables", "snapshot", "sync", "diff"}
  /\ tasks' = [tasks EXCEPT ![s] = Returned(@, "failed", @.calls, @.aweme_ids)]
  /\ UNCHANGED storeVars
  /\ TaskFrame

\* A loop that was cancelled and has ended.
EndedLoop ==
  [pc |-> "ended", elapsed |-> 0, cycle |-> 1, cancelRequested |-> TRUE, lateDispatch |-> FALSE]

\* A table without the video-id column, with one row.
OtherTable ==
  [exists |-> TRUE, fields |-> {PrimaryField("primary")},
   rows |-> <<[recordId |-> 1, fields |-> ("primary" :> <<120>>)]>>]

\* A table with the video-id column alone and no row.
EmptyIdTable == [exists |-> TRUE, fields |-> {PrimaryField("aweme_id")}, rows |-> <<>>]

\* The state before a click on the subscribe button: table "A" has the whole
\* schema and one row, the second table is one of others, the datastore hands
\* out firstId next and the calls of bloggersSubscribe in before have ended.
SubInit(others, firstId, before) ==
  /\ env = [faults |-> TRUE, bad |-> NoBad, runs |-> 0]
  /\ params \in {q \in ParamSets : q.passtoken /\ q.platform = "douyin" /\ q.url = <<Url1>>}
  /\ remote = [u \in {Url1, Url2} |-> [kind |-> "message"]]
  /\ tz = 480
  /\ tables \in {t \in [TableNames -> {NoTable, OtherTable, EmptyIdTable,
                                       [exists |-> TRUE, fields |-> FullSchema,
                                        rows |-> <<Row(1, <<65, 98>>, "old")>>]}] :
                   /\ t["A"].exists /\ t["A"].fields = FullSchema
                   /\ t[DefaultTableName] \in others}
  /\ nextRecordId = firstId
  /\ pc = "idle" /\ run = 0 /\ urls = <<>> /\ urlIndex = 0
  /\ videos = <<>> /\ tableName = "" /\ isNewTable = FALSE
  /\ fieldMap = EmptyMap /\ toCreate = <<>> /\ fieldFaults = 0
  /\ allRecords = <<>> /\ hasMore = TRUE /\ pageToken = 0 /\ cellIndex = 0
  /\ existingVideoIds = EmptyMap /\ readFailed = {} /\ pageFailed = FALSE
  /\ recordsToAdd = <<>> /\ recordsToUpdate = <<>> /\ writeIndex = 0
  /\ visited = <<>> /\ passes = <<>> /\ writes = <<>>
  /\ rawValue = Null /\ timestamp = Null
  /\ TextIdle
  /\ subRef = FALSE /\ loops = before
  /\ tasks = [s \in 1..MaxTasks |-> NoTask]
  /\ botWebURL \in BOOLEAN

\* The scheduler: up to MaxLoops subscriptions, whose cycles insert one row.
InitSub == SubInit({OtherTable}, MaxRecordId, <<>>)

NextSub ==
  \/ bloggersSubscribe
  \/ cancelSubscription
  \/ \E l \in DOMAIN loops : IntervalCheck(l)
  \/ \E l \in DOMAIN loops : PeriodElapsed(l)
  \/ \E s \in DOMAIN tasks : TaskGetTableList(s)
  \/ \E s \in DOMAIN tasks : TaskSnapshot(s)
  \/ \E s \in DOMAIN tasks : TaskSyncWrite(s)
  \/ \E s \in DOMAIN tasks : TaskSyncReturn(s)
  \/ \E s \in DOMAIN tasks : TaskDiff(s)
  \/ \E s \in DOMAIN tasks : TaskNotify(s)
  \/ \E s \in DOMAIN tasks : TaskCatch(s)

SpecSub == InitSub /\ [][NextSub]_vars

\* The awaited calls of a task return, whatever they return.
TaskStep(s) ==
  \/ TaskGetTableList(s) \/ TaskSnapshot(s) \/ TaskSyncReturn(s) \/ TaskDiff(s) \/ TaskNotify(s)

\* The scheduler in an event loop that runs every timer callback that is due
\* and in which every awaited call of a task returns.
SpecSubLive ==
  /\ SpecSub
  /\ \A l \in 1..MaxLoops : WF_vars(l \in DOMAIN loops /\ IntervalCheck(l))
  /\ \A l \in 1..MaxLoops : WF_vars(l \in DOMAIN loops /\ PeriodElapsed(l))
  /\ \A s \in 1..MaxTasks : WF_vars(TaskStep(s))

\* The cycles of the last subscription followed: every subscription before
\* has ended, and the cycles create the second table and insert rows.
InitCycle ==
  SubInit({NoTable, OtherTable, EmptyIdTable}, 2, [l \in 1..(MaxLoops - 1) |-> EndedLoop])

SpecCycle == InitCycle /\ [][NextSub]_vars

(***************************************************************************)
(* Properties of the synchronisation.                                      *)
(***************************************************************************)

\* The part of a string between its first and its last character that is no
\* white space.
Core(s) ==
  LET ink == {i \in 1..Len(s) : ~IsWhiteSpace(s[i])}
  IN  IF ink = {} THEN <<>>
      ELSE SubSeq(s, CHOOSE i \in ink : \A j \in ink : i <= j,
                     CHOOSE i \in ink : \A j \in ink : i >= j)

SameLetter(a, b) ==
  a = b \/ (a \in 65..90 /\ b = a + 32) \/ (b \in 65..90 /\ a = b + 32)

\* x and y differ at most by surrounding white space and letter case.
SameCanonicalId(x, y) ==
  /\ Len(Core(x)) = Len(Core(y))
  /\ \A k \in 1..Len(Core(x)) : SameLetter(Core(x)[k], Core(y)[k])

\* The text of the video-id cell of the row with this record id.
StoredId(recordId) == getCellString(tables[tableName], fieldMap["aweme_id"], recordId)

\* The passes of one run, in url order.
PassesOf(r) == SelectSeq(passes, LAMBDA p : p.run = r)

\* C1: with no failing call, the second run of the same input inserts nothing
\* and classifies every record of every batch as an update, and the third run
\* builds the same insert and update sets as the second.
C1_SecondRunUpdatesOnly ==
  /\ \A i \in 1..Len(passes) :
       (passes[i].run >= 2 /\ passes[i].result = "written") =>
         /\ passes[i].added = <<>>
         /\ Len(passes[i].updated) = Len(remote[passes[i].url].videos)
  /\ \A i \in 1..Len(PassesOf(3)) :
       /\ PassesOf(3)[i].added = PassesOf(2)[i].added
       /\ PassesOf(3)[i].updated = PassesOf(2)[i].updated

\* The same statement holds when every video of the input has a non-empty
\* aweme_id.
SecondRunUpdatesOnlyWithIds ==
  (\A u \in {Url1, Url2} : remote[u].kind = "videos" =>
      \A i \in 1..Len(remote[u].videos) : remote[u].videos[i].aweme_id # <<>>)
    => C1_SecondRunUpdatesOnly

\* C2: once the batch is classified, a video whose id is not blank and differs
\* from the id stored in a scanned row at most by surrounding white space and
\* letter case is an update of a row that holds such an id, and is no insert.
C2_CanonicalIdMatch ==
  (pc = "add" /\ HasRequiredId) =>
    \A i \in 1..Len(videos) : \A k \in 1..Len(allRecords) :
      ( /\ allRecords[k] \notin readFailed
        /\ Core(videos[i].aweme_id) # <<>>
        /\ SameCanonicalId(StoredId(allRecords[k]), videos[i].aweme_id) )
      => /\ \E j \in 1..Len(recordsToUpdate) :
              /\ recordsToUpdate[j].video = i
              /\ SameCanonicalId(StoredId(recordsToUpdate[j].recordId), videos[i].aweme_id)
         /\ \A j \in 1..Len(recordsToAdd) : recordsToAdd[j].video # i

\* C2 witness: a video is classified as an update of a row whose stored id is
\* written differently (other case, other white space).
C2_Witness ==
  /\ pc = "add" /\ HasRequiredId
  /\ \E j \in 1..Len(recordsToUpdate) :
       /\ StoredId(recordsToUpdate[j].recordId) # videos[recordsToUpdate[j].video].aweme_id
       /\ Trim(StoredId(recordsToUpdate[j].recordId)) # Trim(videos[recordsToUpdate[j].video].aweme_id)
       /\ SameCanonicalId(StoredId(recordsToUpdate[j].recordId),
                          videos[recordsToUpdate[j].video].aweme_id)

\* The local day of a timestamp lies in the years 2010..2030: from 2010-01-01
\* (day 14610) to 2030-12-31 (day 22279).
LocalYearInRange(t) == AddMinutes(t, tz).d \in 14610..22279
UtcYearInRange(t) == t.d \in 14610..22279

\* An entry of the insert or the update list.
Entries == [j \in 1..(Len(recordsToAdd) + Len(recordsToUpdate)) |->
              IF j <= Len(recordsToAdd) THEN recordsToAdd[j]
              ELSE recordsToUpdate[j - Len(recordsToAdd)]]

\* The publish time cannot be kept: it is no date and no timestamp at all, or
\* it names a day outside the years 2010..2030.
Unparseable(raw) ==
  \A t \in NormalizePublishTime(raw, tz) :
    t = Null \/ (~LocalYearInRange(t) /\ ~UtcYearInRange(t))

\* The columns of the current table other than the publish date.
OtherColumns == {fieldMap[k] : k \in (FieldKeys \cap DOMAIN fieldMap) \ {"conv_create_time"}}

\* C11: once a batch is classified, every video has its entry with all the
\* mapped columns other than the publish date, and the entry of a video whose
\* publish time is unparseable (unsupported format, invalid calendar date,
\* year out of range, null) has no publish date; the url's processing then
\* ends as a written pass.
C11_UnparseableDateLeftOut ==
  /\ (pc \in {"add", "update"} /\ HasRequiredId) =>
       /\ Len(Entries) = Len(videos)
       /\ \A j \in 1..Len(Entries) :
            /\ OtherColumns \subseteq DOMAIN Entries[j].fields
            /\ Unparseable(videos[Entries[j].video].conv_create_time) =>
                 fieldMap["conv_create_time"] \notin DOMAIN Entries[j].fields
  /\ \A i \in 1..Len(passes) : passes[i].result = "written"

\* The same statement for the publish times the normalisation maps to no
\* timestamp; and a publish date that is written is a timestamp.
NullDateLeftOut ==
  /\ (pc \in {"add", "update"} /\ HasRequiredId) =>
       /\ Len(Entries) = Len(videos)
       /\ \A j \in 1..Len(Entries) :
            LET raw == videos[Entries[j].video].conv_create_time
                col == fieldMap["conv_create_time"]
            IN  /\ OtherColumns \subseteq DOMAIN Entries[j].fields
                /\ NormalizePublishTime(raw, tz) = {Null} => col \notin DOMAIN Entries[j].fields
                /\ col \in DOMAIN Entries[j].fields =>
                     Entries[j].fields[col] \in NormalizePublishTime(raw, tz) \ {Null}
  /\ \A i \in 1..Len(passes) : passes[i].result = "written"

\* C12: once a batch is classified, no entry of the insert list or of the
\* update list belongs to a video whose aweme_id is empty after trimming.
C12_NoEntryWithoutId ==
  pc \in {"add", "update"} =>
    \A j \in 1..Len(Entries) : Trim(videos[Entries[j].video].aweme_id) # <<>>

\* Every line of the url input is blank (or there is none).
OnlyBlankLines(url) ==
  \A i \in 1..Len(url) : \A j \in 1..Len(url[i]) : IsWhiteSpace(url[i][j])

\* The input the validation is specified to reject.
EmptyInput == ~params.username \/ ~params.passtoken \/ OnlyBlankLines(params.url)

\* C13: when username or passtoken is empty, or the url input is empty or has
\* only blank lines, the call returns without entering the url loop: no
\* request, no pass over a url, no write, and no step changes the tables.
C13_ValidationBeforeAnyCall ==
  /\ [](EmptyInput => /\ pc \in {"idle", "done"}
                      /\ urls = <<>> /\ visited = <<>> /\ passes = <<>> /\ writes = <<>>)
  /\ [][EmptyInput => UNCHANGED <<tables, nextRecordId>>]_vars

\* C13 witness: the call has returned for an input of blank lines only, with
\* both credentials given.
C13_Witness ==
  /\ pc = "done" /\ run = 1
  /\ params.username /\ params.passtoken
  /\ params.url # <<>> /\ OnlyBlankLines(params.url)
  /\ visited = <<>>

\* The canonical form of an id, letter by letter: surrounding white space
\* removed, capital letters lowered.
Canonical(x) ==
  [k \in 1..Len(Core(x)) |-> IF Core(x)[k] \in 65..90 THEN Core(x)[k] + 32 ELSE Core(x)[k]]

\* C14: when the scan ended with every page fetched, it has followed the
\* cursor to the last page: it holds every row of the table, in order; the
\* index has the canonical id of every row whose id cell was read and is not
\* empty, each key maps to a row that was read and holds that id, and a row
\* whose cell read failed has kept no other row out of the index.
C14_CompleteIndex ==
  (pc = "classify" /\ HasRequiredId /\ ~pageFailed) =>
    LET rows == tables[tableName].rows
    IN  /\ ~hasMore
        /\ allRecords = [i \in 1..Len(rows) |-> rows[i].recordId]
        /\ \A i \in 1..Len(rows) :
             (rows[i].recordId \notin readFailed /\ StoredId(rows[i].recordId) # <<>>)
               => Canonical(StoredId(rows[i].recordId)) \in DOMAIN existingVideoIds
        /\ \A key \in DOMAIN existingVideoIds :
             /\ existingVideoIds[key] \in Range(allRecords) \ readFailed
             /\ StoredId(existingVideoIds[key]) # <<>>
             /\ Canonical(StoredId(existingVideoIds[key])) = key

\* C14 witness: a table of three rows was scanned in two pages, the cell
\* read of one row failed and a row of the second page is indexed.
C14_Witness ==
  /\ pc = "classify" /\ HasRequiredId /\ ~pageFailed
  /\ Len(allRecords) = 3 /\ Len(allRecords) > PageLimit
  /\ readFailed # {}
  /\ \E key \in DOMAIN existingVideoIds : existingVideoIds[key] = allRecords[3]

\* The scan of the current pass ended on a failed page fetch, and what it holds.
PartialScan ==
  LET rows == tables[tableName].rows
  IN  /\ ~hasMore /\ pc \notin {"scan", "fetch", "done"}
      /\ pageToken <= Len(rows)
      /\ allRecords = [i \in 1..pageToken |-> rows[i].recordId]
      /\ pc # "cells" =>
           \A k \in 1..Len(allRecords) :
             (allRecords[k] \notin readFailed /\ StoredId(allRecords[k]) # <<>>)
               => Canonical(StoredId(allRecords[k])) \in DOMAIN existingVideoIds

\* The rows fetched before the failure decide the classification.
PartialScanUsed ==
  \A i \in 1..Len(videos) : \A k \in 1..Len(allRecords) :
    ( /\ allRecords[k] \notin readFailed
      /\ StoredId(allRecords[k]) # <<>>
      /\ Canonical(StoredId(allRecords[k])) = Canonical(videos[i].aweme_id) )
    => /\ \E j \in 1..Len(recordsToUpdate) : recordsToUpdate[j].video = i
       /\ \A j \in 1..Len(recordsToAdd) : recordsToAdd[j].video # i

\* C15: a failed page fetch ends the pagination: no further page is asked
\* for, the pass goes on to the cell reads or the classification and not to
\* the catch of the url loop, and the rows of the pages fetched before are
\* kept, indexed and used to classify the batch.
C15_PageFailureKeepsPartialIndex ==
  /\ [](pageFailed => PartialScan)
  /\ []((pageFailed /\ pc = "add" /\ writeIndex = 0) => PartialScanUsed)
  /\ [][(~pageFailed /\ pageFailed') =>
          /\ pc' \in {"cells", "classify"}
          /\ passes' = passes
          /\ allRecords' = allRecords]_vars

\* C15 witness: the fetch of the second page failed, a row of the first page
\* is indexed and a video of the batch is an update of it.
C15_Witness ==
  /\ pageFailed /\ pc = "add"
  /\ allRecords # <<>> /\ Len(allRecords) < Len(tables[tableName].rows)
  /\ \E j \in 1..Len(recordsToUpdate) : recordsToUpdate[j].recordId \in Range(allRecords)

\* The text of the video-id cell of each row of a table that has the
\* video-id column.
IdCells(table) ==
  [i \in 1..Len(table.rows) |->
     getCellString(table, FieldMapOf(table.fields)["aweme_id"], table.rows[i].recordId)]

\* In every table with the video-id column, no two rows hold the same
\* canonical id (rows with a blank id cell aside).
UniqueRowIdentity(base) ==
  \A n \in DOMAIN base :
    (base[n].exists /\ "aweme_id" \in DOMAIN FieldMapOf(base[n].fields)) =>
      \A i, j \in 1..Len(base[n].rows) :
        (i < j /\ Core(IdCells(base[n])[i]) # <<>>)
          => Canonical(IdCells(base[n])[i]) # Canonical(IdCells(base[n])[j])

\* C16: with no failing call, so that every scan is complete, no write of
\* getVideosData takes a base in which every canonical id is held by at most
\* one row to a base in which two rows hold the same canonical id.
C16_RowIdentityUnique ==
  [][UniqueRowIdentity(tables) => UniqueRowIdentity(tables')]_vars

\* The first rows of the batches a list of n entries is cut into (0-based).
ChunkStarts(n) == {k * batchSize : k \in 0..((n - 1) \div batchSize)} \cap 0..(n - 1)

\* The write calls of the current run for its i-th url.
WritesOf(i, op) == {j \in 1..Len(writes) : writes[j].url = i /\ writes[j].op = op}

\* C3: when the processing of a url has ended, every batch of 500 of its
\* insert list was attempted, also those after a batch whose write failed.
C3_InsertChunksIndependent ==
  \A i \in 1..Len(PassesOf(run)) :
    \A k \in ChunkStarts(Len(PassesOf(run)[i].added)) :
      \E j \in WritesOf(i, "addRecords") : writes[j].from = k

\* C4: when the processing of a url has ended, every batch of 500 of its
\* update list was attempted, and every record of a batch whose write failed
\* was written again on its own.
C4_UpdateChunkFallback ==
  \A i \in 1..Len(PassesOf(run)) :
    /\ \A k \in ChunkStarts(Len(PassesOf(run)[i].updated)) :
         \E j \in WritesOf(i, "setRecords") : writes[j].from = k
    /\ \A j \in WritesOf(i, "setRecords") :
         ~writes[j].ok =>
           \A r \in writes[j].from..(writes[j].from + writes[j].rows - 1) :
             \E m \in WritesOf(i, "setRecord") : m > j /\ writes[m].from = r

\* C5: no write call carries more than 500 rows, be it an insert or an update
\* of getVideosData or the transcript update of handleVideoText.
C5_WritesAtMost500 ==
  \A j \in 1..Len(writes) : writes[j].rows <= batchSize

\* The write calls of getVideosData carry at most 500 rows each, and the
\* successful ones of a url whose writes all succeeded cover its lists batch
\* by batch.
SyncWritesAtMost500 ==
  /\ \A j \in 1..Len(writes) :
       writes[j].op \in {"addRecords", "setRecords"} => writes[j].rows <= batchSize
  /\ \A i \in 1..Len(PassesOf(run)) :
       (\A j \in 1..Len(writes) : writes[j].url = i => writes[j].ok) =>
         /\ {writes[j].from : j \in WritesOf(i, "addRecords")}
              = ChunkStarts(Len(PassesOf(run)[i].added))
         /\ {writes[j].from : j \in WritesOf(i, "setRecords")}
              = ChunkStarts(Len(PassesOf(run)[i].updated))

\* C6: a failed write never leaves the write step through the catch of the
\* url loop: the url's processing ends as a written pass, after a failed
\* insert the update step still runs (its first batch is issued when there is
\* something to update), and the call goes on to the remaining urls.
C6_WriteErrorsContained ==
  \A i \in 1..Len(writes) :
    ~writes[i].ok =>
      LET k == writes[i].url IN
      /\ k <= Len(passes) => passes[k].result = "written"
      /\ (writes[i].op = "addRecords" /\ k > Len(passes)) => (pc = "update" /\ urlIndex = k)
      /\ (writes[i].op = "addRecords" /\ k <= Len(passes) /\ passes[k].updated # <<>>) =>
           \E j \in (i + 1)..Len(writes) :
             writes[j].op = "setRecords" /\ writes[j].url = k /\ writes[j].from = 0
      /\ pc = "done" => Len(visited) = Len(urls)

\* C6 witness: the call has returned; an insert failed, the update step of the
\* same url wrote its batch, and a later url was processed.
C6_Witness ==
  /\ pc = "done"
  /\ \E i \in 1..Len(writes) : \E j \in 1..Len(writes) :
       /\ i < j
       /\ writes[i].op = "addRecords" /\ ~writes[i].ok
       /\ writes[j].op = "setRecords" /\ writes[j].ok /\ writes[j].url = writes[i].url
       /\ Len(visited) > writes[i].url

\* C7: the urls are entered one by one in input order, each once; an error in
\* the processing of one url leaves the loop going, and when the call returns
\* after a successful validation every url has been entered and has ended;
\* while the call has not returned, the loop stands at a url of the input.
C7_EveryUrlAttempted ==
  /\ Len(visited) <= Len(urls)
  /\ \A i \in 1..Len(visited) : visited[i] = urls[i]
  /\ pc \notin {"idle", "done"} => (urlIndex = Len(visited) + (IF pc = "fetch" THEN 1 ELSE 0))
  /\ (pc = "done" /\ run > 0) =>
       /\ visited = urls
       /\ urls = UrlsOf(params.url) \/ urls = <<>>
       /\ Len(passes) = Len(urls)
       /\ \A i \in 1..Len(passes) : passes[i].url = urls[i]
  /\ pc = "fetch" => urlIndex \in 1..Len(urls)

\* C7 witness: the call has returned, the first url ended in the catch of the
\* loop and the second url inserted records.
C7_Witness ==
  /\ pc = "done"
  /\ Len(passes) = 2
  /\ passes[1].result = "error"
  /\ passes[2].result = "written" /\ passes[2].added # <<>>
  /\ \E w \in Range(writes) : w.url = 2 /\ w.op = "addRecords" /\ w.ok

(***************************************************************************)
(* Properties of the subscription scheduler.                               *)
(***************************************************************************)

\* C17: a loop for which the cancellation was asked during its wait leaves
\* at its next timer callback: the next interval check resolves the wait and
\* the loop ends, it does not go on waiting.
C17_CancelEndsWaitAtNextCheck ==
  [][\A l \in DOMAIN loops :
       (loops[l].pc = "wait" /\ loops[l].cancelRequested /\ loops'[l] # loops[l])
         => loops'[l].pc = "ended"]_vars

\* A task is dispatched only by a step that reads the flag as set.
DispatchOnlyWhenFlagUp ==
  [][(\E s \in DOMAIN tasks : tasks'[s].pc = "tables" /\ tasks[s].pc # "tables") => subRef']_vars

\* The cancellation was asked for while loop l was running; loop l has ended.
CancelRequested(l) == l \in DOMAIN loops /\ loops[l].cancelRequested
Ended(l) == l \in DOMAIN loops /\ loops[l].pc = "ended"

\* C18: a loop that was running when the cancellation was asked for
\* eventually ends.
C18_CancelledLoopTerminates ==
  \A l \in 1..MaxLoops : [](CancelRequested(l) => <>Ended(l))

\* A loop dispatches no task after the cancellation was asked for.
NoDispatchAfterCancel == \A l \in DOMAIN loops : ~loops[l].lateDispatch

\* A task that has been dispatched and has not returned.
Running(s) == tasks[s].pc \notin {"free", "done", "failed"}

\* C19: no running task holds back the loop head: whenever the period of a
\* waiting loop has elapsed and a task can be followed, the timeout callback
\* can run, and with the flag up it dispatches the next task.
C19_DispatchNotSerialized ==
  \A l \in DOMAIN loops :
    (loops[l].pc = "wait" /\ loops[l].elapsed = PeriodTicks /\ FreeSlots # {})
      => ENABLED PeriodElapsed(l)

\* C19 witness: the task of cycle 2 of a loop has just been dispatched while
\* the task of its cycle 1 is past its snapshot and has not returned.
C19_Witness ==
  \E s1, s2 \in DOMAIN tasks :
    /\ tasks[s1].loop = tasks[s2].loop /\ tasks[s1].loop # 0
    /\ tasks[s1].cycle = 1 /\ tasks[s2].cycle = 2
    /\ tasks[s1].pc \in {"sync", "diff", "notify"}
    /\ tasks[s2].pc = "tables"

\* getVideosData inserts rows only into a table that has the video-id
\* column.
RowsOnlyWithVideoIdField ==
  [][\A n \in DOMAIN tables :
       Len(tables'[n].rows) > Len(tables[n].rows) => HasVideoIdField(tables'[n])]_vars

\* The ids of the given rows of table n that are not blank, without their
\* surrounding white space.
IdsOfRows(n, recordIds) ==
  LET cells == [i \in 1..Len(recordIds) |->
                  Core((CHOOSE r \in Range(tables[n].rows) : r.recordId = recordIds[i]).fields["primary"])]
  IN  SelectSeq(cells, LAMBDA c : c # <<>>)

\* The rows of table n that task t read after the synchronisation and that
\* its snapshot does not hold.
RowsNewTo(t, n) ==
  SelectSeq(t.currentRecords[n],
            LAMBDA id : \A i \in 1..Len(t.allInitialRecords[n]) : t.allInitialRecords[n][i] # id)

RECURSIVE IdsOfTables(_, _)
IdsOfTables(t, names) ==
  IF names = <<>> THEN <<>>
  ELSE IdsOfRows(Head(names), RowsNewTo(t, Head(names))) \o IdsOfTables(t, Tail(names))

\* C20: a task makes at most one notification call, and none before its
\* last step. At that step it makes one call when it has read, in some table
\* of its list, a row id that its snapshot of the table does not hold, and
\* none otherwise; the call carries the ids of the new rows of all these
\* tables, table after table.
C20_OneNotificationPerCycle ==
  /\ [](\A s \in DOMAIN tasks :
          tasks[s].calls <= 1 /\ (tasks[s].pc # "done" => tasks[s].calls = 0))
  /\ [][\A s \in DOMAIN tasks :
          (tasks[s].pc = "notify" /\ tasks'[s].pc = "done") =>
            LET t == tasks[s]
                withNew == SelectSeq(t.tableList, LAMBDA n : RowsNewTo(t, n) # <<>>)
            IN  /\ tasks'[s].calls = IF withNew # <<>> THEN 1 ELSE 0
                /\ withNew # <<>> => tasks'[s].aweme_ids = IdsOfTables(t, withNew)]_vars

\* C20 witness: a task has returned after one call that carried ids, and it
\* had found new rows in two tables.
C20_Witness ==
  \E s \in DOMAIN tasks :
    /\ tasks[s].pc = "done" /\ tasks[s].calls = 1
    /\ Len(tasks[s].allNewRecords) = 2
    /\ \A j \in 1..2 : tasks[s].allNewRecords[j].awemeIds # <<>>
    /\ Len(tasks[s].aweme_ids) = 2

(***************************************************************************)
(* Properties of the publish-date normalisation.                           *)
(***************************************************************************)

\* The calendar, stated without the day-number arithmetic of the model.
IsLeapYear(y) == (y % 4 = 0 /\ y % 100 # 0) \/ y % 400 = 0
MonthLength(y, m) ==
  IF m = 2 THEN (IF IsLeapYear(y) THEN 29 ELSE 28)
  ELSE IF m \in {4, 6, 9, 11} THEN 30 ELSE 31
IsCalendarDate(y, m, d) == m \in 1..12 /\ d \in 1..MonthLength(y, m)

RECURSIVE DaysBeforeMonth(_, _)
DaysBeforeMonth(y, m) == IF m = 1 THEN 0 ELSE DaysBeforeMonth(y, m - 1) + MonthLength(y, m - 1)

\* Leap days from 1970-01-01 to the first day of year y.
LeapDaysBefore(y) ==
  ((y - 1) \div 4 - (y - 1) \div 100 + (y - 1) \div 400) - (1969 \div 4 - 1969 \div 100 + 1969 \div 400)

\* The day number of a calendar date (days since 1970-01-01).
DayNumber(y, m, d) == 365 * (y - 1970) + LeapDaysBefore(y) + DaysBeforeMonth(y, m) + d - 1

\* The number written by the characters i..j of s.
RECURSIVE NumberAt(_, _, _)
NumberAt(s, i, j) == IF j < i THEN 0 ELSE 10 * NumberAt(s, i, j - 1) + (s[j] - 48)

IsEightDigits(v) ==
  v.kind = "string" /\ Len(v.chars) = 8 /\ \A i \in 1..8 : v.chars[i] \in 48..57

IsDigitString(v) ==
  v.kind = "string" /\ Len(v.chars) > 0 /\ \A i \in 1..Len(v.chars) : v.chars[i] \in 48..57

\* C8: whichever rule produced it, a timestamp that is kept lies in the years
\* 2010..2030 (in UTC or in local time).
C8_YearFilterUniform ==
  (pc = "normalized" /\ timestamp # Null) =>
    (LocalYearInRange(timestamp) \/ UtcYearInRange(timestamp))

\* C9: an 8-digit string is read as YYYYMMDD and nothing else: it yields
\* midnight UTC of that day when year (100 or later, as Date.UTC reads a
\* smaller year as 19xx), month and day name a calendar date, and is
\* unparseable otherwise.
C9_EightDigitsAreYYYYMMDD ==
  (pc = "normalized" /\ IsEightDigits(rawValue)) =>
    LET y == NumberAt(rawValue.chars, 1, 4)
        m == NumberAt(rawValue.chars, 5, 6)
        d == NumberAt(rawValue.chars, 7, 8)
    IN  IF y >= 100 /\ IsCalendarDate(y, m, d)
        THEN timestamp = Ms(DayNumber(y, m, d), 0)
        ELSE timestamp = Null

\* C9 witness: "20231005" became midnight UTC of 2023-10-05 (day 19635).
C9_Witness ==
  /\ pc = "normalized"
  /\ rawValue = Str(<<50, 48, 50, 51, 49, 48, 48, 53>>)
  /\ timestamp = Ms(19635, 0)

\* C10: a digit string that is not 8 characters long counts seconds when it
\* has at most 10 characters and milliseconds otherwise; a number counts
\* seconds when it has at most 10 digits (is below 10000000000) and
\* milliseconds otherwise; the timestamp is kept exactly when its local year
\* lies in 2010..2030.
C10_TimestampUnits ==
  (pc = "normalized" /\ (rawValue.kind = "number" \/ (IsDigitString(rawValue) /\ ~IsEightDigits(rawValue)))) =>
    LET written == IF rawValue.kind = "number" THEN rawValue.digits
                   ELSE [i \in 1..Len(rawValue.chars) |-> rawValue.chars[i] - 48]
        length == IF rawValue.kind = "number" THEN Len(rawValue.digits) ELSE Len(rawValue.chars)
        ms == IF length <= 10 THEN MsOfDigits(written \o <<0, 0, 0>>) ELSE MsOfDigits(written)
    IN  timestamp = IF LocalYearInRange(ms) THEN ms ELSE Null

\* C10 witness: the string "1696492800" was read as seconds: 2023-10-05
\* 08:00:00 UTC.
C10_Witness ==
  /\ pc = "normalized"
  /\ rawValue = Str(<<49, 54, 57, 54, 52, 57, 50, 56, 48, 48>>)
  /\ timestamp = Ms(19635, 28800000)


(***************************************************************************)
(* Properties of the text pipeline.                                        *)
(***************************************************************************)

\* The call has passed the four stages.
AfterStages == textPc \in {"reconcile", "write", "single", "report", "finished"}

\* The statuses of an item that stage k has not finished with.
StageStatus(k) ==
  CASE k = 1 -> {"asr_posting"}
    [] k = 2 -> {"asr_polling"}
    [] k = 3 -> {"llm_posting"}
    [] OTHER -> {"llm_polling"}

\* Stage k has work left: a call under way, an item in its status, or, for
\* the first stage, an item it has not submitted yet.
Unfinished(k) ==
  \/ \E c \in inflight : c.stage = k
  \/ \E i \in Items : StatusOf(i) \in StageStatus(k)
  \/ k = 1 /\ \E i \in WithStatus("pending") : HasSource(processingVideos[i])

\* C21: the stages run strictly one after the other: while a stage runs no
\* earlier stage has an item or a call left, every call under way belongs to
\* the running stage, and the final update starts only when all four stages
\* have finished for every item.
C21_StrictStageOrder ==
  /\ \A k \in 1..Len(Stages) :
       InStage(k) => /\ \A j \in 1..(k - 1) : ~Unfinished(j)
                     /\ \A c \in inflight : c.stage = k
  /\ (AfterStages /\ processingVideos # <<>>) => \A j \in 1..Len(Stages) : ~Unfinished(j)

\* The final update starts with one item cleaned up and one item left with
\* its raw transcript.
C21_Witness ==
  /\ textPc = "write"
  /\ WithStatus("llm_done") # {}
  /\ WithStatus("asr_done") # {}

\* The place of a status in the order of the stages.
StatusOrder ==
  <<"pending", "asr_posting", "asr_polling", "asr_done",
    "llm_posting", "llm_polling", "llm_done", "completed">>
Rank(status) == CHOOSE k \in 1..Len(StatusOrder) : StatusOrder[k] = status

\* A step from status a to status b goes forward: to a later status of the
\* order, or to failed, and never out of failed or completed.
Forward(a, b) ==
  /\ a \notin {"failed", "completed"}
  /\ b = "failed" \/ Rank(b) > Rank(a)

\* C22: the status of an item only moves forward along pending, asr_posting,
\* asr_polling, asr_done, llm_posting, llm_polling, llm_done, completed, or
\* to failed from a status that is not terminal; it never moves backward and
\* never leaves failed or completed.
C22_StatusOnlyForward ==
  [][\A i \in Items :
       \/ processingVideos'[i].status = StatusOf(i)
       \/ Forward(StatusOf(i), processingVideos'[i].status)]_vars

\* One item went through every stage and another failed after its
\* transcription.
C22_Witness ==
  /\ WithStatus("llm_done") # {}
  /\ \E i \in WithStatus("failed") : processingVideos[i].video_text_ori # ""

\* The final update has built its list of cell updates, which no later step
\* changes: before the first write, and when the writes are over.
Reconciled == processingVideos # <<>> /\ textPc \in {"write", "report"}

\* The cell updates built for an item.
UpdatesOf(video) ==
  {j \in 1..Len(textRecordsToUpdate) : textRecordsToUpdate[j].recordId = video.recordId}

\* The item ended the stages successfully: cleaned up, or transcribed with no
\* cleanup submitted.
EndedWell(video) ==
  \/ video.status = "llm_done"
  \/ video.status = "asr_done" /\ video.llm_task_id_list = Null

\* C23: the final update takes a text from an item exactly when the item is
\* llm_done, or asr_done with no list of cleanup tasks, and has a non-empty
\* text; the text is the cleaned transcript when there is one and the raw
\* transcript otherwise; an item of any other status contributes nothing.
C23_ReconciliationSelects ==
  Reconciled =>
    /\ Len(textRecordsToUpdate) <= Len(processingVideos)
    /\ \A i \in Items, column \in {textFieldId} :
         LET video == processingVideos[i] IN
           IF EndedWell(video) /\ (video.video_text_arr # "" \/ video.video_text_ori # "")
           THEN /\ Cardinality(UpdatesOf(video)) = 1
                /\ \A j \in UpdatesOf(video) :
                     textRecordsToUpdate[j].fields[column] =
                       IF video.video_text_arr # "" THEN video.video_text_arr
                       ELSE video.video_text_ori
           ELSE UpdatesOf(video) = {}

\* The list was built from items of every kind: a cleaned transcript next to
\* its raw one, a raw transcript with no cleanup, a raw transcript whose
\* cleanup did not end, an item that is done without any text, a failed item.
C23_Witness ==
  /\ Reconciled
  /\ \E i \in Items : /\ StatusOf(i) = "llm_done"
                      /\ processingVideos[i].video_text_arr # ""
                      /\ processingVideos[i].video_text_ori # ""
  /\ \E i \in Items : StatusOf(i) = "llm_done" /\ processingVideos[i].video_text_arr = ""
  /\ \E i \in Items : StatusOf(i) = "asr_done" /\ processingVideos[i].llm_task_id_list = Null
  /\ \E i \in Items : StatusOf(i) = "asr_done" /\ processingVideos[i].llm_task_id_list # Null
  /\ \E i \in Items : StatusOf(i) = "failed"

\* A cleanup segment of the item failed.
SegmentFailed(video) == \E k \in DOMAIN video.segments : video.segments[k] = "error"

\* C24: the cleanup of an item is all or nothing: an item is llm_done only
\* when every one of its segments has delivered its text, and an item with
\* one failed segment is failed, gives no cell update and leaves its row
\* without a transcript, whatever its other segments delivered.
C24_CleanupAllOrNothing ==
  \A i \in Items :
    LET video == processingVideos[i] IN
      /\ video.status = "llm_done" =>
           /\ video.llm_task_id_list # Null
           /\ DOMAIN video.segments = DOMAIN video.llm_task_id_list.ids
           /\ \A k \in DOMAIN video.segments : video.segments[k] = "text"
      /\ SegmentFailed(video) =>
           /\ video.status = "failed"
           /\ UpdatesOf(video) = {}
           /\ getCellString(tables[TextTable], textFieldId, video.recordId) = ""

\* The call ended with an item whose first segment delivered its text and
\* whose second segment failed, and with a row written for another item.
C24_Witness ==
  /\ textPc = "finished"
  /\ updateCount > 0
  /\ \E i \in Items : processingVideos[i].segments = <<"text", "error">>

\* The submission of the item was answered with the marker of an existing
\* task.
TaskExists(video) == video.asr_task_id = ASR_TASK_EXIST_MARKER

\* C25: an item whose submission is answered with EXIST moves to asr_polling
\* as with a fresh task reference, and no transcription task is created for
\* it, neither by that answer nor later.
C25_ExistMarkerNoSecondTask ==
  [][\A i \in Items :
       /\ (~TaskExists(processingVideos[i]) /\ TaskExists(processingVideos'[i])) =>
            /\ StatusOf(i) = "asr_posting"
            /\ processingVideos'[i].status = "asr_polling"
            /\ asrTasks'[i] = 0
       /\ TaskExists(processingVideos[i]) =>
            /\ TaskExists(processingVideos'[i])
            /\ asrTasks'[i] = 0]_vars

\* An item answered with EXIST is transcribed by the first poll, with no task
\* created for it, while the other item waits for its fresh task.
C25_Witness ==
  /\ InStage(2) /\ attempt = 1
  /\ \E i \in WithStatus("asr_done") :
       /\ TaskExists(processingVideos[i])
       /\ processingVideos[i].video_text_ori # ""
       /\ asrTasks[i] = 0
  /\ \E i \in WithStatus("asr_polling") : asrTasks[i] = 1

\* Item i waits for its transcription; item i has its raw transcript or has
\* failed.
AsrPolling(i) == i \in Items /\ StatusOf(i) = "asr_polling"
AsrSettled(i) ==
  /\ i \in Items
  /\ StatusOf(i) # "asr_polling"
  /\ StatusOf(i) = "failed" \/ processingVideos[i].video_text_ori # ""

\* The second stage is over while an item still waits for its transcription.
PollingLeftOpen == ~InStage(1) /\ ~InStage(2) /\ WithStatus("asr_polling") # {}

\* C26: the polling of the transcriptions ends for every item: the rounds are
\* counted and bounded, every item that is polled ends as asr_done with its
\* raw transcript or as failed, and no item is asr_polling when the third
\* stage starts.
C26_AsrPollingTerminates ==
  /\ [](attempt <= MaxAttempts)
  /\ [](~PollingLeftOpen)
  /\ \A i \in 1..MaxItems : AsrPolling(i) ~> AsrSettled(i)

\* The last round of the second stage has ended: one item has its transcript
\* and one has failed.
C26_Witness ==
  /\ InStage(2) /\ attempt = MaxAttempts /\ inflight = {}
  /\ WithStatus("asr_polling") = {}
  /\ \E i \in WithStatus("asr_done") : processingVideos[i].video_text_ori # ""
  /\ \E i \in WithStatus("failed") : processingVideos[i].asr_task_id # ""

\* The segments whose poll the fourth stage has still to start in this round.
WaitingForSlot ==
  {h \in WithStatus("llm_polling") \X (1..MaxSegments) :
     /\ h[2] \in DOMAIN processingVideos[h[1]].segments
     /\ h \notin handled}

\* C27: at every moment the remote calls of the pipeline that are under way,
\* submissions and polls together, are at most as many as the cap of the
\* limiter.
C27_CallsWithinCap == Cardinality(inflight) <= ConcurrencyCap

\* The limiter is full while further polls wait for a slot.
C27_Witness ==
  /\ InStage(4)
  /\ Cardinality(inflight) = ConcurrencyCap
  /\ Cardinality(WaitingForSlot) >= 2

\* C28: the two counts reported at the end partition the items: the rows
\* written and the items counted as failed add up to the number of items,
\* also when the batch write fails and the record-by-record writes fail for
\* some records.
C28_CountsPartitionItems ==
  (textPc = "finished" /\ processingVideos # <<>>) =>
    updateCount + failCount = Len(processingVideos)

(***************************************************************************)
(* Further properties of the synchronisation.                              *)
(***************************************************************************)

\* The row an update entry names was fetched and read by the scan of this
\* pass and holds the canonical id of the entry's video.
TargetsScannedRow(entry) ==
  /\ entry.recordId \in Range(allRecords) \ readFailed
  /\ StoredId(entry.recordId) # <<>>
  /\ Canonical(StoredId(entry.recordId)) = Canonical(videos[entry.video].aweme_id)

\* C29: the classification uses only an index whose construction has ended:
\* when it starts the pagination loop is over and every fetched row has had
\* its cell read, no entry exists while the scan runs, and every entry of the
\* update list names a scanned row whose canonical id is that of its video;
\* an index that misses rows can cause an insert, never a wrong update.
C29_UpdatesOnlyFromFinishedIndex ==
  /\ (pc = "classify" /\ HasRequiredId) =>
       /\ ~hasMore
       /\ cellIndex = Len(allRecords) + 1 \/ allRecords = <<>>
  /\ pc \in {"scan", "cells"} => (recordsToAdd = <<>> /\ recordsToUpdate = <<>>)
  /\ pc = "add" => \A j \in 1..Len(recordsToUpdate) : TargetsScannedRow(recordsToUpdate[j])

\* A page fetch failed after the first page: one video is an update of a row
\* of that page, and another video is inserted although a row that was not
\* fetched holds its canonical id.
C29_Witness ==
  /\ pc = "add" /\ writeIndex = 0 /\ pageFailed
  /\ recordsToUpdate # <<>>
  /\ \E j \in 1..Len(recordsToAdd) : \E k \in 1..Len(tables[tableName].rows) :
       /\ tables[tableName].rows[k].recordId \notin Range(allRecords)
       /\ Canonical(StoredId(tables[tableName].rows[k].recordId))
            = Canonical(videos[recordsToAdd[j].video].aweme_id)

\* The names of the columns of the current table.
ColumnNames == {f.name : f \in tables[tableName].fields}

\* The columns of fieldMapping whose creation failed in this pass: attempted
\* and not in the map.
FailedColumns == {k \in Range(toCreate) : k \notin DOMAIN fieldMap}

\* ensureFieldsExist returns: what it attempted and what it returns, against
\* the columns the table had when it was called.
EnsureReturns ==
  (pc = "ensure" /\ pc' \in {"scan", "classify"}) =>
    /\ Range(toCreate') = (FieldKeys \ {"aweme_id"}) \ ColumnNames
    /\ Len(toCreate') = Cardinality(Range(toCreate'))
    /\ tables[tableName].fields \subseteq tables'[tableName].fields
    /\ \A name \in ColumnNames :
         Cardinality({f \in tables'[tableName].fields : f.name = name}) = 1
    /\ \A k \in Range(toCreate') :
         k \notin {f.name : f \in tables'[tableName].fields} => k \notin DOMAIN fieldMap'
    /\ \A k \in DOMAIN fieldMap' :
         \E f \in tables'[tableName].fields : f.name = k /\ f.id = fieldMap'[k]

\* The entries of the pass leave out the columns whose creation failed, and
\* every video with an id has its entry with the other mapped columns.
FailedColumnsLeftOut ==
  (pc \in {"add", "update"} /\ HasRequiredId) =>
    /\ \A j \in 1..Len(Entries) :
         /\ DOMAIN Entries[j].fields \subseteq Range(fieldMap)
         /\ \A k \in FailedColumns : PlainField(k).id \notin DOMAIN Entries[j].fields
    /\ \A i \in 1..Len(videos) :
         Trim(videos[i].aweme_id) # <<>> =>
           \E j \in 1..Len(Entries) :
             /\ Entries[j].video = i
             /\ OtherColumns \subseteq DOMAIN Entries[j].fields

\* C30: one call of ensureFieldsExist attempts exactly one creation for every
\* column of fieldMapping, the video-id column excepted, that the table
\* lacks, and none for a column the table has; a column whose creation fails
\* is not in the returned map, no entry written with that map holds it, and
\* the records are still written with their other columns.
C30_MissingColumnsCreatedOnce ==
  /\ [][EnsureReturns]_vars
  /\ []FailedColumnsLeftOut

\* A table lacked two columns: one was created, the creation of the other
\* failed, and the videos of the pass have their entries.
C30_Witness ==
  /\ pc = "add" /\ HasRequiredId
  /\ FailedColumns # {}
  /\ Range(toCreate) \ FailedColumns # {}
  /\ Entries # <<>>

\* C31: when the map has no id for the video-id column, for instance after
\* the rename of the primary column of a new table failed, the pass goes on
\* and every video of the batch is added as a new record.
C31_AllAddedWithoutIdColumn ==
  (pc \in {"add", "update"} /\ ~HasRequiredId) =>
    /\ Len(recordsToAdd) = Len(videos)
    /\ recordsToUpdate = <<>>

(***************************************************************************)
(* Further properties of the subscription scheduler.                       *)
(***************************************************************************)

\* A task ends in this step, by its catch or after its notification.
TaskEnds ==
  \E s \in DOMAIN tasks :
    /\ tasks[s].pc \in {"tables", "snapshot", "sync", "diff", "notify"}
    /\ tasks'[s].pc \in {"failed", "done"}

\* A loop leaves its while statement in this step.
LoopEnds(l) == loops[l].pc = "wait" /\ loops'[l].pc = "ended"

\* C32: a failure inside the task of a cycle is caught inside the task: the
\* step in which a task ends, failed or after its notification, changes
\* neither the flag nor any loop, and a loop ends only in a step that finds
\* the flag down.
C32_TaskFailureLeavesLoop ==
  [][/\ TaskEnds => UNCHANGED <<subRef, loops>>
     /\ \A l \in DOMAIN loops : LoopEnds(l) => ~subRef]_vars

\* The task of the first cycle of a loop has failed, and the loop, not
\* cancelled, has dispatched the task of its second cycle and waits.
C32_Witness ==
  /\ subRef
  /\ \E s \in DOMAIN tasks, r \in DOMAIN tasks :
       /\ tasks[s].pc = "failed" /\ tasks[s].cycle = 1
       /\ tasks[r].loop = tasks[s].loop /\ tasks[r].cycle = 2
       /\ tasks[r].pc \notin {"free", "done", "failed"}
       /\ loops[tasks[s].loop].pc = "wait"
       /\ ~loops[tasks[s].loop].cancelRequested

(***************************************************************************)
(* Further properties of the text pipeline.                                *)
(***************************************************************************)

\* The transcript cell and the video-id cell of a row of the table of
\* handleVideoText.
TextCell(row) == row.fields["video_text_arr"]
IdCell(row) == row.fields["primary"]

\* handleVideoText has collected its items in this step.
Collected == textPc = "idle" /\ textPc' = Stages[1]

\* Some item was created for the row.
HasItem(row) == \E i \in DOMAIN processingVideos' : processingVideos'[i].recordId = row.recordId

\* C33 as stated: with no failing call, every row whose transcript cell is
\* empty gets an item.
C33_ItemForEveryEmptyRow ==
  [][(Collected /\ ~Faulty) =>
       \A k \in DOMAIN tables[TextTable].rows :
         TextCell(tables[TextTable].rows[k]) = "" => HasItem(tables[TextTable].rows[k])]_vars

\* C33, amended: the items created at the start are pending, one for each
\* row at most, and only for rows whose transcript cell is empty and whose
\* video-id cell is not; with no failing read every such row has its item;
\* and no step changes a transcript cell that was not empty.
C33_ItemsForEmptyRowsWithId ==
  [][/\ Collected =>
          /\ \A i \in DOMAIN processingVideos' :
               /\ processingVideos'[i].status = "pending"
               /\ \A j \in DOMAIN processingVideos' :
                    processingVideos'[j].recordId = processingVideos'[i].recordId => j = i
               /\ \E k \in DOMAIN tables[TextTable].rows :
                    /\ tables[TextTable].rows[k].recordId = processingVideos'[i].recordId
                    /\ TextCell(tables[TextTable].rows[k]) = ""
                    /\ IdCell(tables[TextTable].rows[k]) # <<>>
          /\ ~Faulty =>
               \A k \in DOMAIN tables[TextTable].rows :
                 (/\ TextCell(tables[TextTable].rows[k]) = ""
                  /\ IdCell(tables[TextTable].rows[k]) # <<>>) => HasItem(tables[TextTable].rows[k])
     /\ textPc # "idle" =>
          \A k \in DOMAIN tables[TextTable].rows :
            TextCell(tables'[TextTable].rows[k]) # TextCell(tables[TextTable].rows[k])
              => TextCell(tables[TextTable].rows[k]) = ""]_vars

\* The call ended with a transcript written while the table holds a row
\* without video id, whose transcript cell is still empty, and a row that
\* had its transcript before.
C33_Witness ==
  /\ textPc = "finished" /\ updateCount > 0
  /\ \E k \in DOMAIN tables[TextTable].rows :
       /\ TextCell(tables[TextTable].rows[k]) = ""
       /\ IdCell(tables[TextTable].rows[k]) = <<>>
  /\ \E k \in DOMAIN tables[TextTable].rows : TextCell(tables[TextTable].rows[k]) = "old"

\* The positions in allRecords of the rows whose id cell was read and holds
\* the canonical id key.
ScannedWith(key) ==
  {k \in 1..Len(allRecords) :
     /\ allRecords[k] \notin readFailed
     /\ StoredId(allRecords[k]) # <<>>
     /\ Canonical(StoredId(allRecords[k])) = key}

\* The last of these rows in scan order.
LastScannedWith(key) ==
  allRecords[CHOOSE k \in ScannedWith(key) : \A m \in ScannedWith(key) : m <= k]

\* C34: when several rows of the table hold the same canonical id, the index
\* maps the id to the last of them in scan order (of those whose cell was
\* read), and a video with that id is one update, of exactly that row, and no
\* insert.
C34_LastRowWins ==
  (pc = "add" /\ HasRequiredId) =>
    /\ \A key \in DOMAIN existingVideoIds :
         /\ ScannedWith(key) # {}
         /\ existingVideoIds[key] = LastScannedWith(key)
    /\ \A i \in 1..Len(videos) :
         ScannedWith(Canonical(videos[i].aweme_id)) # {} =>
           /\ \A j \in 1..Len(recordsToAdd) : recordsToAdd[j].video # i
           /\ Cardinality({j \in 1..Len(recordsToUpdate) : recordsToUpdate[j].video = i}) = 1
           /\ \A j \in 1..Len(recordsToUpdate) :
                recordsToUpdate[j].video = i =>
                  recordsToUpdate[j].recordId = LastScannedWith(Canonical(videos[i].aweme_id))

\* Two rows hold one canonical id, both were read, and a video with that id
\* is an update of the second.
C34_Witness ==
  /\ pc = "add" /\ HasRequiredId
  /\ \E j \in 1..Len(recordsToUpdate) :
       /\ Cardinality(ScannedWith(Canonical(videos[recordsToUpdate[j].video].aweme_id))) = 2
       /\ recordsToUpdate[j].recordId = allRecords[2]

\* The loops that have not left their while statement.
ActiveLoops == {l \in DOMAIN loops : loops[l].pc # "ended"}

\* C35: at most one scheduler loop is active at any time, whatever the
\* sequence of subscribe and cancel requests.
C35_AtMostOneLoop == Cardinality(ActiveLoops) <= 1

(***************************************************************************)
(* Two calls of getVideosData at work on one table: a cycle task is        *)
(* dispatched without being awaited, and the manual fetch is not held back *)
(* by a running task, so a second call may run its index scan and its      *)
(* insert write between the index scan and the insert write of the first.  *)
(***************************************************************************)

\* The index a scan without failing reads builds from the rows of a table.
ScannedKeys(table) ==
  {cleanVideoId(IdCells(table)[i]) : i \in {j \in 1..Len(table.rows) : IdCells(table)[j] # <<>>}}

\* The other call, for the same request and hence the same response and the
\* same table, from its index scan to its insert write, while this call is
\* between its own scan and its own writes: it adds the videos its scan did
\* not find.
OtherPass ==
  /\ pc \in {"cells", "classify", "add"}
  /\ HasRequiredId
  /\ \E ts \in {f \in [1..Len(videos) -> UNION {NormalizePublishTime(videos[i].conv_create_time, tz) :
                                                 i \in 1..Len(videos)}] :
                     \A i \in 1..Len(videos) : f[i] \in NormalizePublishTime(videos[i].conv_create_time, tz)} :
       LET index == [i \in 1..Len(videos) |-> i]
           IsAdd(i) == videoId(videos[i]) \notin ScannedKeys(tables[tableName])
       IN  \E adds \in {SelectSeq(index, IsAdd)} :
              /\ adds # <<>>
              /\ tables' = [tables EXCEPT ![tableName].rows =
                              AddedRows(@, [j \in 1..Len(adds) |->
                                              [video |-> adds[j],
                                               fields |-> FieldsOf(videos[adds[j]], ts[adds[j]])]],
                                        nextRecordId)]
              /\ nextRecordId' = nextRecordId + Len(adds)
  /\ UNCHANGED <<syncVars, inputVars, dateVars, textVars, subVars>>

\* The videos of every response have pairwise different, non-blank canonical
\* ids.
DistinctIds(r) ==
  \A u \in DOMAIN r :
    r[u].kind = "videos" =>
      \A i, j \in 1..Len(r[u].videos) :
        /\ videoId(r[u].videos[i]) # <<>>
        /\ i < j => videoId(r[u].videos[i]) # videoId(r[u].videos[j])

\* One call without failing calls, for responses without a repeated id, on a
\* base in which no two rows hold the same canonical id.
InitOverlap ==
  /\ SyncInit([faults |-> FALSE, bad |-> NoBad, runs |-> 1])
  /\ DistinctIds(remote)
  /\ UniqueRowIdentity(tables)

NextOverlap ==
  \/ Next
  \/ OtherPass

SpecOverlap == InitOverlap /\ [][NextOverlap]_vars

\* The same call with no other call at work.
SpecAlone == InitOverlap /\ [][Next]_vars

\* C36: two sync passes at work on the same table at the same time never insert
\* the same canonical id twice: a base in which every canonical id is held by
\* at most one row stays so under every interleaving of their scans and
\* insert writes.
C36_NoDuplicateAcrossPasses == UniqueRowIdentity(tables)

(***************************************************************************)
(* startMultiHandleVideoText: the text pipeline over every table of the    *)
(* base, started by the button that textButtonDisabled (or a running       *)
(* subscription) disables. handleVideoText sets the flag when it is        *)
(* entered and lowers it in its finally block.                             *)
(***************************************************************************)

MaxMultiRuns == 2

\* A table with the whole schema and two rows, the first without transcript.
TwoRowTable ==
  [exists |-> TRUE, fields |-> FullSchema,
   rows |-> <<TextRow(1, Decimal(1), "", <<47>>), TextRow(2, Decimal(2), "old", <<47>>)>>]

\* The call has left its try statement through the finally block.
MultiEnded(r) == [multi[r] EXCEPT !.pc = "ended"]

\* The click: the flag is set and the table list is asked for.
startMultiHandleVideoText ==
  /\ ~subRef /\ ~textButtonDisabled
  /\ Len(multi) < MaxMultiRuns
  /\ textButtonDisabled' = TRUE
  /\ multi' = Append(multi, [pc |-> "list", k |-> 0, tableList |-> <<>>])
  /\ UNCHANGED <<textPc, processingVideos, textRecordsToUpdate, updateCount, failCount,
                 textIndex, stageVars, syncVars, storeVars, inputVars, dateVars, subVars>>

\* bitable.base.getTableList() has answered: the loop over the tables begins
\* with table.getName(); a failure, or a base without tables, leads to the
\* finally block.
MultiGetTableList(r) ==
  /\ multi[r].pc = "list"
  /\ \/ /\ getTableList(tables) # <<>>
        /\ multi' = [multi EXCEPT ![r] = [pc |-> "name", k |-> 1, tableList |-> getTableList(tables)]]
        /\ UNCHANGED textButtonDisabled
     \/ /\ Faulty \/ getTableList(tables) = <<>>
        /\ multi' = [multi EXCEPT ![r] = MultiEnded(r)]
        /\ textButtonDisabled' = FALSE
  /\ UNCHANGED <<textPc, processingVideos, textRecordsToUpdate, updateCount, failCount,
                 textIndex, stageVars, syncVars, storeVars, inputVars, dateVars, subVars>>

\* table.getName() has answered. With a name, handleVideoText(table) is
\* entered and sets the flag; a failure is caught in the loop, which goes on
\* to the next table or, after the last one, to the finally block.
MultiGetName(r) ==
  /\ multi[r].pc = "name"
  /\ \/ /\ multi' = [multi EXCEPT ![r].pc = "handle"]
        /\ textButtonDisabled' = TRUE
     \/ /\ Faulty
        /\ IF multi[r].k < Len(multi[r].tableList)
           THEN /\ multi' = [multi EXCEPT ![r].k = @ + 1]
                /\ UNCHANGED textButtonDisabled
           ELSE /\ multi' = [multi EXCEPT ![r] = MultiEnded(r)]
                /\ textButtonDisabled' = FALSE
  /\ UNCHANGED <<textPc, processingVideos, textRecordsToUpdate, updateCount, failCount,
                 textIndex, stageVars, syncVars, storeVars, inputVars, dateVars, subVars>>

\* The rows of a table handleVideoText may write a transcript to.
RowsInNeed(table) ==
  IF {"video_text_arr", "aweme_id"} \subseteq DOMAIN FieldMapOf(table.fields)
  THEN {row.recordId : row \in {x \in Range(table.rows) : NeedsText(table, {}, x)}}
  ELSE {}

\* The rows with transcripts written to the rows in done.
WithTranscripts(table, done) ==
  [i \in 1..Len(table.rows) |->
     IF table.rows[i].recordId \in done
     THEN [table.rows[i] EXCEPT
             !.fields = (FieldMapOf(table.fields)["video_text_arr"] :> "t") @@ @]
     ELSE table.rows[i]]

\* handleVideoText(table) has returned: it has written the transcripts it
\* obtained, and its finally block has lowered the flag. The loop goes on to
\* the next table, or ends after the last one.
MultiHandleVideoText(r) ==
  /\ multi[r].pc = "handle"
  /\ LET name == multi[r].tableList[multi[r].k]
     IN  \E done \in SUBSET RowsInNeed(tables[name]) :
            tables' = [tables EXCEPT ![name].rows = WithTranscripts(tables[name], done)]
  /\ textButtonDisabled' = FALSE
  /\ multi' = IF multi[r].k < Len(multi[r].tableList)
              THEN [multi EXCEPT ![r].pc = "name", ![r].k = @ + 1]
              ELSE [multi EXCEPT ![r] = MultiEnded(r)]
  /\ UNCHANGED <<textPc, processingVideos, textRecordsToUpdate, updateCount, failCount,
                 textIndex, stageVars, syncVars, nextRecordId, inputVars, dateVars, subVars>>

\* The state before a click on the button: table "A" and possibly a second
\* table; calls may fail or not.
InitMulti ==
  /\ \E faults \in BOOLEAN, other \in {NoTable, OtherTable, TwoRowTable} :
       /\ env = [faults |-> faults, runs |-> 0, bad |-> NoBad]
       /\ tables = [t \in TableNames |-> IF t = "A" THEN TwoRowTable ELSE other]
  /\ params \in {q \in ParamSets : q.url = <<>> /\ q.platform = "douyin" /\ q.username /\ q.passtoken}
  /\ nextRecordId = 3
  /\ remote = [u \in {Url1, Url2} |-> [kind |-> "message"]]
  /\ tz = 480
  /\ pc = "idle" /\ run = 0 /\ urls = <<>> /\ urlIndex = 0
  /\ videos = <<>> /\ tableName = "" /\ isNewTable = FALSE
  /\ fieldMap = EmptyMap /\ toCreate = <<>> /\ fieldFaults = 0
  /\ allRecords = <<>> /\ hasMore = TRUE /\ pageToken = 0 /\ cellIndex = 0
  /\ existingVideoIds = EmptyMap /\ readFailed = {} /\ pageFailed = FALSE
  /\ recordsToAdd = <<>> /\ recordsToUpdate = <<>> /\ writeIndex = 0
  /\ visited = <<>> /\ passes = <<>> /\ writes = <<>>
  /\ rawValue = Null /\ timestamp = Null
  /\ TextIdle
  /\ SubIdle

NextMulti ==
  \/ startMultiHandleVideoText
  \/ \E r \in DOMAIN multi : MultiGetTableList(r)
  \/ \E r \in DOMAIN multi : MultiGetName(r)
  \/ \E r \in DOMAIN multi : MultiHandleVideoText(r)

SpecMulti == InitMulti /\ [][NextMulti]_vars

\* A call of startMultiHandleVideoText has not yet left its finally block.
MultiRunning == \E r \in DOMAIN multi : multi[r].pc # "ended"

\* C37: while a multi-table run is in progress the start flag
\* textButtonDisabled stays set, from its start until its last table has been
\* processed.
C37_FlagHeldDuringRun == MultiRunning => textButtonDisabled

(***************************************************************************)
(* Further properties of the writes of getVideosData.                      *)
(***************************************************************************)

\* The external record carries neither video_text_arr nor video_text_ori.
NoTranscript(video) == video.video_text_arr = "" /\ video.video_text_ori = ""

\* The entries of the update list that name the row.
UpdatesFor(recordId) ==
  {j \in 1..Len(recordsToUpdate) : recordsToUpdate[j].recordId = recordId}

\* The i-th row of a table that has the transcript column holds a transcript.
HasTranscript(table, i) ==
  /\ FieldMapOf(table.fields)["video_text_arr"] \in DOMAIN table.rows[i].fields
  /\ table.rows[i].fields[FieldMapOf(table.fields)["video_text_arr"]] # ""

\* The transcript cell of such a row.
TranscriptOf(table, i) == table.rows[i].fields[FieldMapOf(table.fields)["video_text_arr"]]

\* C38: a sync update of an existing row leaves the row's transcript cell
\* unchanged when the external records it is updated from carry no
\* transcript: a transcript the row holds is not replaced by an empty value.
C38_UpdateKeepsTranscript ==
  [][(pc = "update" /\ "video_text_arr" \in DOMAIN FieldMapOf(tables[tableName].fields)) =>
       \A i \in 1..Len(tables[tableName].rows) :
         (/\ HasTranscript(tables[tableName], i)
          /\ UpdatesFor(tables[tableName].rows[i].recordId) # {}
          /\ \A j \in UpdatesFor(tables[tableName].rows[i].recordId) :
               NoTranscript(videos[recordsToUpdate[j].video]))
           => TranscriptOf(tables'[tableName], i) = TranscriptOf(tables[tableName], i)]_vars

(***************************************************************************)
(* Further properties of the subscription cycle.                           *)
(***************************************************************************)

\* The rows of table n that the snapshot of task t holds; none for a table
\* that was not in the table list of the task.
SnapshotOf(t, n) ==
  IF n \in DOMAIN t.allInitialRecords THEN Range(t.allInitialRecords[n]) ELSE {}

\* The slots other than s were never used: no other task has written.
OnlyTask(s) == \A o \in DOMAIN tasks \ {s} : tasks[o].pc = "free"

\* The ids a finished task has sent hold the id of every row with an id that
\* is in one of the given tables and not in the snapshot of the task.
NotifiedNewRows(s, names) ==
  \A n \in names :
    tables[n].exists =>
      \A i \in 1..Len(tables[n].rows) :
        (/\ tables[n].rows[i].recordId \notin SnapshotOf(tasks[s], n)
         /\ Core(tables[n].rows[i].fields["primary"]) # <<>>)
          => \E j \in 1..Len(tasks'[s].aweme_ids) :
               tasks'[s].aweme_ids[j] = Core(tables[n].rows[i].fields["primary"])

\* C39: every row the synchronisation has inserted during a cycle has its id
\* in the notification of the cycle, also a row of a table that was created
\* during the cycle. (With one task at work, the rows inserted during its
\* cycle are the rows its snapshot does not hold.)
C39_InsertedRowsNotified ==
  [][\A s \in DOMAIN tasks :
       (tasks[s].pc = "notify" /\ tasks'[s].pc = "done" /\ OnlyTask(s))
         => NotifiedNewRows(s, DOMAIN tables)]_vars

\* The same for the tables that were in the table list of the task.
ListedRowsNotified ==
  [][\A s \in DOMAIN tasks :
       (tasks[s].pc = "notify" /\ tasks'[s].pc = "done" /\ OnlyTask(s))
         => NotifiedNewRows(s, Range(tasks[s].tableList))]_vars

=============================================================================
